---- MODULE Spec2Model ----
(***************************************************************************)
(* Model of the codebase introspection engine of evaluclaude-harness:      *)
(* scanner, grammar parsers, git history collector, file-tree builder,     *)
(* config detector, the analyze() orchestrator and the prompt optimizer    *)
(* that consumes its summary.                                              *)
(*                                                                         *)
(* Strings are sequences of one-character strings, so that split, join,    *)
(* endsWith, includes and localeCompare are computed, not assumed.         *)
(***************************************************************************)
EXTENDS Integers, Sequences, FiniteSets, TLC

VARIABLES
    disk,       \* the source tree on disk: path -> file content descriptor
    manifests,  \* the project manifests present in the root
    repo,       \* the version-control state of the root and the outcome of each git call
    call,       \* the last operation invoked and its arguments
    summary,    \* the RepoSummary held by the caller of analyze() (Undefined before)
    threw,      \* TRUE when the last operation raised to its caller
    gitInfo,    \* the value returned by the last direct getGitInfo() call
    treeFiles,  \* the file list handed to the last direct buildFileTree() call
    tree,       \* the FileTreeNode returned by the last direct buildFileTree() call
    optimized,  \* the value returned by the last optimizeForPrompt() call
    tracer,     \* the Tracer object: its current tool call and its trace
    tools,      \* the agent's tool calls: which have started, which have ended
    rubricCache \* the module-level rubric cache: nameOrPath -> Rubric

vars == <<disk, manifests, repo, call, summary, threw, gitInfo, treeFiles, tree, optimized,
          tracer, tools, rubricCache>>

\* new Map()
NoRubrics == <<>>

\* JavaScript's undefined, where an object is optional.
Undefined == [undefined |-> TRUE]

\* undefined where a string is optional (no string of the model is spelled so).
NoString == <<"undefined">>

\* undefined where a list of strings is optional.
NoList == <<NoString>>

\* An optional enumeration member that is not set.
NotSet == "undefined"

-----------------------------------------------------------------------------
(* Strings                                                                 *)

\* Collation order of the characters the model's paths are spelled with
\* (punctuation before letters, as in the root locale of String.localeCompare).
CharOrder == <<"_", ".", "/", "a", "b", "c", "d", "e", "f", "g", "h", "i", "j",
               "k", "l", "m", "n", "o", "p", "q", "r", "s", "t", "u", "v", "w",
               "x", "y", "z">>

UpperCase == <<"A", "B", "C", "D", "E", "F", "G", "H", "I", "J", "K", "L", "M",
               "N", "O", "P", "Q", "R", "S", "T", "U", "V", "W", "X", "Y", "Z">>

LowerCase == <<"a", "b", "c", "d", "e", "f", "g", "h", "i", "j", "k", "l", "m",
               "n", "o", "p", "q", "r", "s", "t", "u", "v", "w", "x", "y", "z">>

\* One character of String.prototype.toLowerCase.
LowerChar(c) ==
    IF \E i \in 1..Len(UpperCase) : UpperCase[i] = c
    THEN LowerCase[CHOOSE i \in 1..Len(UpperCase) : UpperCase[i] = c]
    ELSE c

ToLowerCase(str) == [i \in 1..Len(str) |-> LowerChar(str[i])]

\* Letters that differ only in case collate together.
CharRanks ==
    [c \in {CharOrder[i] : i \in 1..Len(CharOrder)} |->
        CHOOSE i \in 1..Len(CharOrder) : CharOrder[i] = c]

CharRank(c) == CharRanks[LowerChar(c)]

Range(s) == {s[i] : i \in 1..Len(s)}

\* a.localeCompare(b): negative, zero or positive.
RECURSIVE LocaleCompare(_, _)
LocaleCompare(a, b) ==
    IF a = <<>> /\ b = <<>> THEN 0
    ELSE IF a = <<>> THEN -1
    ELSE IF b = <<>> THEN 1
    ELSE IF CharRank(Head(a)) < CharRank(Head(b)) THEN -1
    ELSE IF CharRank(Head(a)) > CharRank(Head(b)) THEN 1
    ELSE LocaleCompare(Tail(a), Tail(b))

\* str.split('/'): the segments between the separators (always at least one).
RECURSIVE SplitFrom(_, _)
SplitFrom(str, cur) ==
    IF str = <<>> THEN <<cur>>
    ELSE IF Head(str) = "/" THEN <<cur>> \o SplitFrom(Tail(str), <<>>)
    ELSE SplitFrom(Tail(str), Append(cur, Head(str)))

Split(str) == SplitFrom(str, <<>>)

\* parts.join('/')
RECURSIVE Join(_)
Join(parts) ==
    IF parts = <<>> THEN <<>>
    ELSE IF Len(parts) = 1 THEN parts[1]
    ELSE parts[1] \o <<"/">> \o Join(Tail(parts))

EndsWith(str, suffix) ==
    /\ Len(suffix) <= Len(str)
    /\ SubSeq(str, Len(str) - Len(suffix) + 1, Len(str)) = suffix

StartsWith(str, prefix) ==
    /\ Len(prefix) <= Len(str)
    /\ SubSeq(str, 1, Len(prefix)) = prefix

Includes(str, sub) ==
    \E i \in 1..(Len(str) + 1) :
        /\ i + Len(sub) - 1 <= Len(str)
        /\ SubSeq(str, i, i + Len(sub) - 1) = sub

\* Array.prototype.sort with comparator cmp (cmp[<<x, y>>] < 0: x before y).
\* The sort is stable: insertion keeps equal elements in their input order.
RECURSIVE InsertSorted(_, _, _)
InsertSorted(x, sorted, cmp) ==
    IF sorted = <<>> THEN <<x>>
    ELSE IF cmp[<<x, Head(sorted)>>] < 0 THEN <<x>> \o sorted
    ELSE <<Head(sorted)>> \o InsertSorted(x, Tail(sorted), cmp)

RECURSIVE StableSort(_, _)
StableSort(s, cmp) ==
    IF s = <<>> THEN <<>>
    ELSE InsertSorted(s[Len(s)], StableSort(SubSeq(s, 1, Len(s) - 1), cmp), cmp)

-----------------------------------------------------------------------------
(* File-tree builder                                                       *)

DirNode(name, path) ==
    [name |-> name, path |-> path, type |-> "directory",
     lang |-> NotSet, role |-> NotSet]

FileNode(name, file) ==
    [name |-> name, path |-> file.path, type |-> "file",
     lang |-> file.lang, role |-> file.role]

\* parent.children.push(node), guarded by `if (parent && parent.children)`.
PushChild(nodeMap, parentPath, node) ==
    IF parentPath \in DOMAIN nodeMap
    THEN [nodeMap EXCEPT ![parentPath] = Append(@, node)]
    ELSE nodeMap

\* A loop that registers each directory under its own name, not under the
\* path that leads to it.
RECURSIVE CreateParentsByName(_, _, _, _)
CreateParentsByName(nodeMap, parts, i, currentPath) ==
    IF i > Len(parts) - 1 THEN nodeMap
    ELSE
        LET parentPath == currentPath
            nextPath == parts[i]
            withDir == IF nextPath \in DOMAIN nodeMap
                       THEN nodeMap
                       ELSE PushChild(nodeMap @@ (nextPath :> <<>>), parentPath,
                                      DirNode(parts[i], nextPath))
        IN  CreateParentsByName(withDir, parts, i + 1, nextPath)

\* The inner loop of buildFileTree: create the parent directories of one file.
\* nodeMap maps the path of each directory node to its children array.
RECURSIVE CreateParents(_, _, _, _)
CreateParents(nodeMap, parts, i, currentPath) ==
    IF i > Len(parts) - 1 THEN nodeMap
    ELSE
        LET parentPath == currentPath
            nextPath == IF currentPath # <<>>
                        THEN currentPath \o <<"/">> \o parts[i]
                        ELSE parts[i]
            withDir == IF nextPath \in DOMAIN nodeMap
                       THEN nodeMap
                       ELSE PushChild(nodeMap @@ (nextPath :> <<>>), parentPath,
                                      DirNode(parts[i], nextPath))
        IN  CreateParents(withDir, parts, i + 1, nextPath)

\* One iteration of the outer loop: parents, then the file node.
InsertFile(nodeMap, file) ==
    LET parts == Split(file.path)
        withDirs == CreateParents(nodeMap, parts, 1, <<>>)
        fileName == parts[Len(parts)]
        parentPath == Join(SubSeq(parts, 1, Len(parts) - 1))
    IN  PushChild(withDirs, parentPath, FileNode(fileName, file))

RECURSIVE InsertFiles(_, _)
InsertFiles(nodeMap, files) ==
    IF files = <<>> THEN nodeMap
    ELSE InsertFiles(InsertFile(nodeMap, Head(files)), Tail(files))

\* A comparator that orders by name alone.
CompareNodesByName(a, b) == LocaleCompare(a.name, b.name)

\* The comparator of sortTreeRecursive: directories first, then by name.
CompareNodes(a, b) ==
    IF a.type # b.type
    THEN (IF a.type = "directory" THEN -1 ELSE 1)
    ELSE LocaleCompare(a.name, b.name)

SortChildren(children) ==
    StableSort(children,
               [p \in Range(children) \X Range(children) |-> CompareNodes(p[1], p[2])])

\* sortTreeRecursive(root): descends from the root through the children arrays,
\* sorting the array of every directory node it reaches.
RECURSIVE SortTreeRecursive(_, _)
SortTreeRecursive(nodeMap, dirPaths) ==
    IF dirPaths = <<>> THEN nodeMap
    ELSE
        LET dirPath == Head(dirPaths)
            sorted == SortChildren(nodeMap[dirPath])
            subDirs == SelectSeq(sorted, LAMBDA n : n.type = "directory")
        IN  SortTreeRecursive([nodeMap EXCEPT ![dirPath] = sorted],
                              [i \in 1..Len(subDirs) |-> subDirs[i].path] \o Tail(dirPaths))

ComparePaths(files) ==
    [p \in Range(files) \X Range(files) |-> LocaleCompare(p[1].path, p[2].path)]

\* buildFileTree(files, rootName).  The tree is the root node together with
\* the children array of every directory node, keyed by the node's path.
BuildFileTree(files, rootName) ==
    LET sortedFiles == StableSort(files, ComparePaths(files))
        built == InsertFiles((<<>> :> <<>>), sortedFiles)
    IN  [name |-> rootName, path |-> <<>>, type |-> "directory",
         children |-> SortTreeRecursive(built, << <<>> >>)]

\* traverse(n) of getTreeStats, from a directory node: the nodes reached
\* through the children arrays.
RECURSIVE TraverseFiles(_, _)
TraverseFiles(t, nodes) ==
    IF nodes = <<>> THEN <<>>
    ELSE LET n == Head(nodes)
         IN  IF n.type = "directory"
             THEN TraverseFiles(t, t.children[n.path] \o Tail(nodes))
             ELSE <<n>> \o TraverseFiles(t, Tail(nodes))

RECURSIVE TraverseDirs(_, _)
TraverseDirs(t, nodes) ==
    IF nodes = <<>> THEN <<>>
    ELSE LET n == Head(nodes)
         IN  IF n.type = "directory"
             THEN <<n>> \o TraverseDirs(t, t.children[n.path] \o Tail(nodes))
             ELSE TraverseDirs(t, Tail(nodes))

RootNode(t) == DirNode(t.name, t.path)

\* getTreeStats(node): directories and files counted by the traversal.
GetTreeStats(t) ==
    [directories |-> Len(TraverseDirs(t, <<RootNode(t)>>)),
     files |-> Len(TraverseFiles(t, <<RootNode(t)>>))]

-----------------------------------------------------------------------------
(* File scanner                                                            *)

\* path.extname: from the last '.' of the last segment; empty when there is
\* none or when the segment only starts with one.
BaseName(filePath) == LET parts == Split(filePath) IN parts[Len(parts)]

ExtName(filePath) ==
    LET base == BaseName(filePath)
        dots == {i \in 1..Len(base) : base[i] = "."}
    IN  IF dots = {} THEN <<>>
        ELSE LET last == CHOOSE i \in dots : \A j \in dots : j <= i
             IN  IF last = 1 THEN <<>> ELSE SubSeq(base, last, Len(base))

\* A classifier that does not treat .js and .jsx as typescript.
DetectLanguageJsAsOther(filePath) ==
    LET ext == ToLowerCase(ExtName(filePath))
    IN  CASE ext = <<".", "p", "y">> -> "python"
          [] ext \in {<<".", "t", "s">>, <<".", "t", "s", "x">>} -> "typescript"
          [] OTHER -> "other"

DetectLanguage(filePath) ==
    LET ext == ToLowerCase(ExtName(filePath))
    IN  CASE ext = <<".", "p", "y">> -> "python"
          [] ext \in {<<".", "t", "s">>, <<".", "t", "s", "x">>} -> "typescript"
          [] ext \in {<<".", "j", "s">>, <<".", "j", "s", "x">>} -> "typescript"
          [] OTHER -> "other"

\* The test conditions of detectRole.
TestMarker(lowerPath, fileName) ==
    \/ Includes(lowerPath, <<"_", "_", "t", "e", "s", "t", "s", "_", "_">>)
    \/ Includes(lowerPath, <<"/", "t", "e", "s", "t", "s", "/">>)
    \/ Includes(lowerPath, <<"/", "t", "e", "s", "t", "/">>)
    \/ EndsWith(fileName, <<"_", "t", "e", "s", "t", ".", "p", "y">>)
    \/ EndsWith(fileName, <<".", "t", "e", "s", "t", ".", "t", "s">>)
    \/ EndsWith(fileName, <<".", "t", "e", "s", "t", ".", "t", "s", "x">>)
    \/ EndsWith(fileName, <<".", "t", "e", "s", "t", ".", "j", "s">>)
    \/ EndsWith(fileName, <<".", "s", "p", "e", "c", ".", "t", "s">>)
    \/ EndsWith(fileName, <<".", "s", "p", "e", "c", ".", "t", "s", "x">>)
    \/ EndsWith(fileName, <<".", "s", "p", "e", "c", ".", "j", "s">>)
    \/ StartsWith(fileName, <<"t", "e", "s", "t", "_">>)

\* The config conditions of detectRole.
ConfigKeyword(lowerPath) ==
    \/ Includes(lowerPath, <<"c", "o", "n", "f", "i", "g">>)
    \/ Includes(lowerPath, <<"s", "e", "t", "t", "i", "n", "g", "s">>)
    \/ Includes(lowerPath, <<".", "e", "n", "v">>)
    \/ EndsWith(lowerPath, <<"c", "o", "n", "f", "t", "e", "s", "t", ".", "p", "y">>)
    \/ EndsWith(lowerPath, <<"s", "e", "t", "u", "p", ".", "p", "y">>)
    \/ EndsWith(lowerPath, <<"p", "y", "p", "r", "o", "j", "e", "c", "t", ".", "t", "o", "m", "l">>)

\* The documentation conditions of detectRole.
DocsKeyword(lowerPath) ==
    \/ Includes(lowerPath, <<"d", "o", "c", "s">>)
    \/ Includes(lowerPath, <<"d", "o", "c">>)
    \/ Includes(lowerPath, <<"r", "e", "a", "d", "m", "e">>)

\* A classifier that tests the three rule sets in the reverse order.
DetectRoleDocsFirst(filePath) ==
    LET lowerPath == ToLowerCase(filePath)
        fileName == BaseName(lowerPath)
    IN  IF DocsKeyword(lowerPath) THEN "docs"
        ELSE IF ConfigKeyword(lowerPath) THEN "config"
        ELSE IF TestMarker(lowerPath, fileName) THEN "test"
        ELSE "source"

DetectRole(filePath) ==
    LET lowerPath == ToLowerCase(filePath)
        fileName == BaseName(lowerPath)
    IN  IF TestMarker(lowerPath, fileName) THEN "test"
        ELSE IF ConfigKeyword(lowerPath) THEN "config"
        ELSE IF DocsKeyword(lowerPath) THEN "docs"
        ELSE "source"

\* The directories of IGNORE_PATTERNS ('<dir>/**', anchored at the root).
IgnoredDirs ==
    { <<"n", "o", "d", "e", "_", "m", "o", "d", "u", "l", "e", "s">>,
      <<".", "g", "i", "t">>,
      <<"_", "_", "p", "y", "c", "a", "c", "h", "e", "_", "_">>,
      <<"d", "i", "s", "t">>, <<"b", "u", "i", "l", "d">>,
      <<".", "v", "e", "n", "v">>, <<"v", "e", "n", "v">>,
      <<".", "e", "n", "v">>, <<"e", "n", "v">>,
      <<"c", "o", "v", "e", "r", "a", "g", "e">>,
      <<".", "n", "e", "x", "t">>, <<".", "n", "u", "x", "t">> }

Ignored(filePath) ==
    \/ \E d \in IgnoredDirs : StartsWith(filePath, d \o <<"/">>)
    \/ Len(Split(filePath)) = 1 /\ EndsWith(filePath, <<".", "p", "y", "c">>)

\* The glob patterns of scanDirectory, in the order they are matched.
ScanPatterns == << <<".", "p", "y">>, <<".", "t", "s">>, <<".", "t", "s", "x">>,
                   <<".", "j", "s">>, <<".", "j", "s", "x">> >>

\* glob('**/*<ext>'): the entries of the directory walk whose last segment
\* ends with the extension (a bare '<ext>' is a dot file, which '*' skips).
GlobMatches(d, ext) ==
    SelectSeq([i \in 1..Len(d) |-> d[i].path],
              LAMBDA p : /\ EndsWith(BaseName(p), ext)
                         /\ Len(BaseName(p)) > Len(ext)
                         /\ ~Ignored(p))

RECURSIVE Flatten(_)
Flatten(seqs) == IF seqs = <<>> THEN <<>> ELSE Head(seqs) \o Flatten(Tail(seqs))

\* [...new Set(files)]: first occurrences, in order.
RECURSIVE Unique(_)
Unique(s) ==
    IF s = <<>> THEN <<>>
    ELSE LET init == Unique(SubSeq(s, 1, Len(s) - 1))
         IN  IF s[Len(s)] \in Range(init) THEN init ELSE Append(init, s[Len(s)])

ContentOf(d, filePath) ==
    LET i == CHOOSE k \in 1..Len(d) : d[k].path = filePath IN d[i].content

FileInfoOf(filePath) ==
    [path |-> filePath, lang |-> DetectLanguage(filePath), role |-> DetectRole(filePath)]

\* The paths scanDirectory stats: the matches of the patterns, one after the
\* other, without repetitions.
UniqueFiles(d) ==
    Unique(Flatten([i \in 1..Len(ScanPatterns) |-> GlobMatches(d, ScanPatterns[i])]))

\* What the mapper of uniqueFiles resolves to when fs.stat rejects.
Null == [null |-> TRUE]

\* The mapper of uniqueFiles: the FileInfo of the path, or null when fs.stat
\* rejects (size and lastModified, copied from the stat result, are not modelled).
StatResult(d, relativePath) ==
    IF ContentOf(d, relativePath).statOk THEN FileInfoOf(relativePath) ELSE Null

\* A filter that stops at the first failed stat: the files before it only.
NonNullPrefix(fileInfos) ==
    LET nulls == {i \in 1..Len(fileInfos) : fileInfos[i] = Null}
    IN  IF nulls = {} THEN fileInfos
        ELSE SubSeq(fileInfos, 1, (CHOOSE i \in nulls : \A j \in nulls : i <= j) - 1)

\* fileInfos.filter(f => f !== null)
NonNull(fileInfos) == SelectSeq(fileInfos, LAMBDA f : f # Null)

\* scanDirectory(root): Promise.all keeps the results in the order of
\* uniqueFiles; a file whose stat fails maps to null and is filtered out.
ScanDirectory(d) ==
    LET uniqueFiles == UniqueFiles(d)
    IN  NonNull([i \in 1..Len(uniqueFiles) |-> StatResult(d, uniqueFiles[i])])

-----------------------------------------------------------------------------
(* Grammar parsers                                                         *)
(* The tree-sitter grammar is an external library: a file's content is     *)
(* described by what the grammar makes of it.                              *)
(*   statOk         fs.stat succeeds                                       *)
(*   readable       fs.readFile succeeds                                   *)
(*   grammarThrows  parser.parse(source) throws                            *)
(*   errors         number of ERROR nodes in the tree                      *)
(*   decls          number of declaration nodes outside the ERROR nodes    *)

\* The syntax-error threshold of TypeScriptParser.parse.
MAX_SYNTAX_ERRORS == 10

\* The bounds of calculateComplexity.
LOW_MAX_EXPORTS == 5

MEDIUM_MAX_EXPORTS == 15

\* A tiering with strict bounds: 5 exports are already medium, 15 high.
CalculateComplexityStrict(exportCount) ==
    IF exportCount < LOW_MAX_EXPORTS THEN "low"
    ELSE IF exportCount < MEDIUM_MAX_EXPORTS THEN "medium"
    ELSE "high"

CalculateComplexity(exportCount) ==
    IF exportCount <= LOW_MAX_EXPORTS THEN "low"
    ELSE IF exportCount <= MEDIUM_MAX_EXPORTS THEN "medium"
    ELSE "high"

\* The ExportInfo of the i-th declaration node of a file (its name and line
\* stand for the text the extract* methods copy out of the source).
DeclName(i) == IF i % 2 = 1 THEN <<"f">> ELSE <<"_", "g">>

ExportOf(i) == [name |-> DeclName(i), kind |-> "function", lineNumber |-> i]

\* walkNode over the root: one ExportInfo per declaration node it reaches
\* (ERROR nodes are not descended into).
WalkNode(content) == [i \in 1..content.decls |-> ExportOf(i)]

Returned(value) == [threw |-> FALSE, value |-> value]

Thrown == [threw |-> TRUE, value |-> Undefined]

ModuleOf(filePath, exports) ==
    [path |-> filePath, exports |-> exports, imports |-> <<>>,
     complexity |-> CalculateComplexity(Len(exports))]

CreateEmptyModule(filePath) ==
    [path |-> filePath, exports |-> <<>>, imports |-> <<>>, complexity |-> "low"]

\* PythonParser.parse: no try/catch and no error-node check.
PythonParse(content, filePath) ==
    IF content.grammarThrows THEN Thrown
    ELSE Returned(ModuleOf(filePath, WalkNode(content)))

\* A TypeScript parser without the try/catch and the error-node check.
TypeScriptParseUnguarded(content, filePath) ==
    IF content.grammarThrows THEN Thrown
    ELSE Returned(ModuleOf(filePath, WalkNode(content)))

\* TypeScriptParser.parse.
TypeScriptParse(content, filePath) ==
    IF content.grammarThrows THEN Returned(CreateEmptyModule(filePath))
    ELSE IF content.errors > 0 /\ content.errors > MAX_SYNTAX_ERRORS
    THEN Returned(CreateEmptyModule(filePath))
    ELSE Returned(ModuleOf(filePath, WalkNode(content)))

-----------------------------------------------------------------------------
(* Config detector                                                         *)
(* manifests: for each manifest file name, what is on disk:                *)
(*   exists      fs.access succeeds                                        *)
(*   readable    fs.readFile succeeds                                      *)
(*   wellFormed  the text parses in the format of the manifest             *)
(*   names       the framework names the text holds (in package.json, when *)
(*               well-formed, as dependency keys)                          *)

FileExists(m, name) == m[name].exists

\* The try block over package.json: readFile, JSON.parse, then the key tests;
\* the empty catch leaves 'none'.
DetectTsFramework(manifest) ==
    IF ~manifest.readable \/ ~manifest.wellFormed THEN "none"
    ELSE IF "vitest" \in manifest.names THEN "vitest"
    ELSE IF "jest" \in manifest.names THEN "jest"
    ELSE "none"

\* The try block over pyproject.toml or requirements.txt: readFile, then
\* content.includes('pytest') on the raw text.
MentionsPytest(manifest) == manifest.readable /\ "pytest" \in manifest.names

DetectConfig(m) ==
    LET hasPyprojectToml == FileExists(m, "pyproject.toml")
        hasSetupPy == FileExists(m, "setup.py")
        hasRequirementsTxt == FileExists(m, "requirements.txt")
        fromPyproject == IF hasPyprojectToml /\ MentionsPytest(m["pyproject.toml"])
                         THEN "pytest" ELSE "none"
        pyFramework == IF fromPyproject = "none" /\ hasRequirementsTxt
                          /\ MentionsPytest(m["requirements.txt"])
                       THEN "pytest" ELSE fromPyproject
        hasPackageJson == FileExists(m, "package.json")
        hasTsconfig == FileExists(m, "tsconfig.json")
        tsFramework == IF hasPackageJson THEN DetectTsFramework(m["package.json"])
                       ELSE "none"
    IN  [python |-> IF hasPyprojectToml \/ hasSetupPy \/ hasRequirementsTxt
                    THEN [entryPoints |-> <<>>, testFramework |-> pyFramework,
                          hasTyping |-> FALSE, pyprojectToml |-> hasPyprojectToml,
                          setupPy |-> hasSetupPy]
                    ELSE Undefined,
         typescript |-> IF hasPackageJson \/ hasTsconfig
                        THEN [entryPoints |-> <<>>, testFramework |-> tsFramework,
                              hasTypes |-> hasTsconfig, packageJson |-> hasPackageJson,
                              tsconfig |-> hasTsconfig]
                        ELSE Undefined]

-----------------------------------------------------------------------------
(* History collector                                                       *)
(* repo describes what git answers in the root:                            *)
(*   isRepo        `git rev-parse --git-dir` succeeds                      *)
(*   fails         the git invocations that exit with an error             *)
(*   head, branch  the current commit and branch name                      *)
(*   differing     revision -> the paths that differ between that revision *)
(*                 and the working tree                                    *)
(*   commits       the commit log, newest first                            *)
(*   touched       path -> number of commits that changed it               *)
(*   authors       path -> the authors of those commits                    *)

MAX_COMMITS == 20

MAX_FILE_HISTORY == 50

MAX_CONTRIBUTORS == 5

GitCalls == {"revParseHead", "branch", "diff", "log", "nameOnlyLog",
             "contributors", "lastModified"}

Min(a, b) == IF a <= b THEN a ELSE b

\* The lines a git or sort command prints for a set of paths, in path order.
RECURSIVE SortedPaths(_)
SortedPaths(paths) ==
    IF paths = {} THEN <<>>
    ELSE LET first == CHOOSE p \in paths : \A q \in paths : LocaleCompare(p, q) <= 0
         IN  <<first>> \o SortedPaths(paths \ {first})

\* /\.(py|ts|tsx|js|jsx)$/.test(filePath)
IsSourceFile(filePath) ==
    \E i \in 1..Len(ScanPatterns) : EndsWith(filePath, ScanPatterns[i])

\* getChangedFiles(root, since): `git diff --name-only <since>`.
GetChangedFiles(r, since) ==
    IF "diff" \in r.fails \/ since \notin DOMAIN r.differing THEN <<>>
    ELSE SelectSeq(SortedPaths(r.differing[since]),
                   LAMBDA f : f # <<>> /\ IsSourceFile(f))

\* getRecentCommits(root, limit)
GetRecentCommits(r, limit) ==
    IF "log" \in r.fails THEN <<>>
    ELSE SubSeq(r.commits, 1, Min(limit, Len(r.commits)))

\* getFileContributors: `... | sort -u | head -5`
GetFileContributors(r, filePath) ==
    IF "contributors" \in r.fails THEN <<>>
    ELSE LET names == SortedPaths(r.authors[filePath])
         IN  SubSeq(names, 1, Min(MAX_CONTRIBUTORS, Len(names)))

\* getFileLastModified: the author date of the newest commit on the file.
GetFileLastModified(r, filePath) ==
    IF "lastModified" \in r.fails THEN <<>>
    ELSE r.commits[1].date

\* `sort -n` in place of `sort -rn`: smaller counts first.
CompareCountLinesAscending(a, b) ==
    IF a.commitCount # b.commitCount THEN a.commitCount - b.commitCount
    ELSE LocaleCompare(a.path, b.path)

\* `sort -rn` on the `uniq -c` lines: larger counts first; equal counts fall
\* back to the reversed comparison of the whole line.
CompareCountLines(a, b) ==
    IF a.commitCount # b.commitCount THEN b.commitCount - a.commitCount
    ELSE LocaleCompare(b.path, a.path)

\* The stdout of the pipeline of getFileHistory:
\* git log --name-only | grep <source extension> | sort | uniq -c | sort -rn | head -<limit>
CountLines(r, limit) ==
    LET grepped == {p \in DOMAIN r.touched : r.touched[p] > 0 /\ IsSourceFile(p)}
        counted == [i \in 1..Cardinality(grepped) |->
                       [path |-> SortedPaths(grepped)[i],
                        commitCount |-> r.touched[SortedPaths(grepped)[i]]]]
        ranked == StableSort(counted,
                     [p \in Range(counted) \X Range(counted) |-> CompareCountLines(p[1], p[2])])
    IN  SubSeq(ranked, 1, Min(limit, Len(ranked)))

\* getFileHistory(root, limit)
GetFileHistory(r, limit) ==
    IF "nameOnlyLog" \in r.fails THEN <<>>
    ELSE LET lines == CountLines(r, limit)
         IN  [i \in 1..Len(lines) |->
                 [path |-> lines[i].path,
                  commitCount |-> lines[i].commitCount,
                  lastModified |-> GetFileLastModified(r, lines[i].path),
                  contributors |-> GetFileContributors(r, lines[i].path)]]

\* A collector that answers with an empty object outside a repository.
GetGitInfoEmptyObject(r, lastCommit) ==
    [currentCommit |-> <<>>, lastAnalyzedCommit |-> <<>>, changedSince |-> <<>>,
     branch |-> <<>>, recentCommits |-> <<>>, fileHistory |-> <<>>]

\* getGitInfo(root, lastCommit)
GetGitInfo(r, lastCommit) ==
    IF ~r.isRepo THEN Undefined
    ELSE IF "revParseHead" \in r.fails \/ "branch" \in r.fails THEN Undefined
    ELSE LET currentCommit == r.head
             branch == IF r.branch # <<>> THEN r.branch ELSE <<"H", "E", "A", "D">>
             changedSince == IF lastCommit # NoString /\ lastCommit # currentCommit
                             THEN GetChangedFiles(r, lastCommit)
                             ELSE <<>>
         IN  [currentCommit |-> currentCommit,
              lastAnalyzedCommit |-> IF lastCommit # NoString THEN lastCommit
                                     ELSE currentCommit,
              changedSince |-> changedSince,
              branch |-> branch,
              recentCommits |-> GetRecentCommits(r, MAX_COMMITS),
              fileHistory |-> GetFileHistory(r, MAX_FILE_HISTORY)]

-----------------------------------------------------------------------------
(* Summarizer                                                              *)

\* A parse loop whose catch pushes an empty module for the file it skips.
ParseIntoKeepingFailed(modules, d, file) ==
    LET content == ContentOf(d, file.path)
        parsed == IF file.lang = "python" THEN PythonParse(content, file.path)
                  ELSE TypeScriptParse(content, file.path)
    IN  IF ~content.readable \/ parsed.threw
        THEN Append(modules, CreateEmptyModule(file.path))
        ELSE Append(modules, parsed.value)

\* One iteration of the parse loop of analyze(): the modules list after it.
\* A failed read or a throwing parser lands in the catch, which skips the file.
ParseInto(modules, d, file) ==
    LET content == ContentOf(d, file.path)
        parsed == IF file.lang = "python" THEN PythonParse(content, file.path)
                  ELSE TypeScriptParse(content, file.path)
    IN  IF ~content.readable THEN modules
        ELSE IF file.lang \notin {"python", "typescript"} THEN modules
        ELSE IF parsed.threw THEN modules
        ELSE Append(modules, parsed.value)

RECURSIVE ParseAll(_, _, _)
ParseAll(modules, d, files) ==
    IF files = <<>> THEN modules
    ELSE ParseAll(ParseInto(modules, d, Head(files)), d, Tail(files))

\* detectLanguages(files): the languages in order of first appearance.
DetectLanguages(files) ==
    Unique(SelectSeq([i \in 1..Len(files) |-> files[i].lang],
                     LAMBDA l : l \in {"python", "typescript"}))

\* A filter that is never applied.
FilterOnlyFilesNever(files, onlyFiles) == files

\* A filter that walks onlyFiles and collects the scanned file of each entry.
FilterOnlyFilesPerEntry(files, onlyFiles) ==
    IF onlyFiles # NoList /\ Len(onlyFiles) > 0
    THEN Flatten([k \in 1..Len(onlyFiles) |->
                     SelectSeq(files, LAMBDA f : f.path = onlyFiles[k])])
    ELSE files

\* The files list analyze() works on after its onlyFiles filter.
FilterOnlyFiles(files, onlyFiles) ==
    IF onlyFiles # NoList /\ Len(onlyFiles) > 0
    THEN SelectSeq(files, LAMBDA f : f.path \in Range(onlyFiles))
    ELSE files

\* analyze(options) from the point where scanDirectory has resolved with
\* `scanned`: the RepoSummary it returns (analyzedAt, the wall-clock stamp, is
\* not modelled).
AnalyzeScanned(scanned, d, m, r, options) ==
    LET files == FilterOnlyFiles(scanned, options.onlyFiles)
        sourceFiles == SelectSeq(files, LAMBDA f : f.role = "source" /\ f.lang # "other")
        modules == ParseAll(<<>>, d, sourceFiles)
        config == DetectConfig(m)
        git == GetGitInfo(r, options.lastCommit)
        fileTree == BuildFileTree(files, BaseName(options.root))
    IN  [languages |-> DetectLanguages(files),
         root |-> options.root,
         files |-> files,
         modules |-> modules,
         config |-> config,
         git |-> git,
         tree |-> fileTree]

\* analyze(options)
Analyze(d, m, r, options) == AnalyzeScanned(ScanDirectory(d), d, m, r, options)

-----------------------------------------------------------------------------
(* Prompt builder                                                          *)

MAX_PROMPT_IMPORTS == 10

MAX_ACTIVE_FILES == 10

\* summary.git.fileHistory?.sort((a, b) => b.commitCount - a.commitCount):
\* Array.prototype.sort sorts the array of the summary in place.
SortFileHistory(fileHistory) ==
    StableSort(fileHistory,
               [p \in Range(fileHistory) \X Range(fileHistory) |->
                   p[2].commitCount - p[1].commitCount])

\* The summary object after optimizeForPrompt(summary) has run on it.
SummaryAfterOptimize(s) ==
    IF s.git = Undefined THEN s
    ELSE [s EXCEPT !.git.fileHistory = SortFileHistory(@)]

OptimizeExports(exports) ==
    SelectSeq([i \in 1..Len(exports) |->
                  [name |-> exports[i].name, kind |-> exports[i].kind,
                   line |-> exports[i].lineNumber]],
              LAMBDA e : ~StartsWith(e.name, <<"_">>))

\* The OptimizedRepoSummary that optimizeForPrompt(summary) returns.
OptimizeForPrompt(s) ==
    [name |-> BaseName(s.root),
     languages |-> s.languages,
     modules |-> SelectSeq([i \in 1..Len(s.modules) |->
                               [path |-> s.modules[i].path,
                                complexity |-> s.modules[i].complexity,
                                exports |-> OptimizeExports(s.modules[i].exports),
                                imports |-> SubSeq(s.modules[i].imports, 1,
                                               Min(MAX_PROMPT_IMPORTS, Len(s.modules[i].imports)))]],
                           LAMBDA mod : Len(mod.exports) > 0),
     config |-> [python |-> IF s.config.python # Undefined
                            THEN [testFramework |-> s.config.python.testFramework,
                                  hasTyping |-> s.config.python.hasTyping]
                            ELSE Undefined,
                 typescript |-> IF s.config.typescript # Undefined
                                THEN [testFramework |-> s.config.typescript.testFramework,
                                      hasTypes |-> s.config.typescript.hasTypes]
                                ELSE Undefined],
     git |-> IF s.git # Undefined
             THEN [branch |-> s.git.branch,
                   activeFiles |->
                       LET sorted == SortFileHistory(s.git.fileHistory)
                           top == SubSeq(sorted, 1, Min(MAX_ACTIVE_FILES, Len(sorted)))
                       IN  [i \in 1..Len(top) |->
                               [path |-> top[i].path, commits |-> top[i].commitCount]]]
             ELSE Undefined]

-----------------------------------------------------------------------------
(* The inputs the model explores                                           *)

\* Largest number of declarations in one source file.
MaxDecls == 1

\* Longest onlyFiles list passed to analyze().
MaxOnlyFiles == 2

\* Largest per-file commit count in the history.
MaxCommitCount == 2

\* Longest file list passed to buildFileTree().
MaxTreeFiles == 3

PathAPy == <<"a", ".", "p", "y">>

PathSrcBTs == <<"s", "r", "c", "/", "b", ".", "t", "s">>

PathTestCPy == <<"t", "e", "s", "t", "_", "c", ".", "p", "y">>

PathZzPy == <<"z", "z", ".", "p", "y">>

PathNotesMd == <<"n", "o", "t", "e", "s", ".", "m", "d">>

RootPath == <<"r", "e", "p", "o">>

RevC1 == <<"c", "1">>

RevC2 == <<"c", "2">>

\* The directory walk of the root visits the candidate files in this order.
DiskWalk == <<PathAPy, PathSrcBTs, PathTestCPy>>

Absent ==
    [present |-> FALSE, statOk |-> FALSE, readable |-> FALSE,
     grammarThrows |-> FALSE, errors |-> 0, decls |-> 0]

Parsed(errors, decls) ==
    [present |-> TRUE, statOk |-> TRUE, readable |-> TRUE,
     grammarThrows |-> FALSE, errors |-> errors, decls |-> decls]

StatFails == [Parsed(0, 0) EXCEPT !.statOk = FALSE, !.readable = FALSE]

Unreadable == [Parsed(0, 0) EXCEPT !.readable = FALSE]

GrammarThrows == [Parsed(0, 0) EXCEPT !.grammarThrows = TRUE]

SourceContents ==
    {Absent, StatFails, Unreadable, GrammarThrows, Parsed(0, 0)}
        \cup {Parsed(e, MaxDecls) : e \in {0, 1, MAX_SYNTAX_ERRORS + 1}}

\* What may be on disk: each candidate file with one of its contents (a test
\* file is never read, so only its presence varies).
DiskChoices ==
    {c \in [1..Len(DiskWalk) -> SourceContents] :
        \A i \in 1..Len(DiskWalk) :
            DetectRole(DiskWalk[i]) # "source" => c[i] \in {Absent, Parsed(0, MaxDecls)}}

DiskOf(c) ==
    SelectSeq([i \in 1..Len(DiskWalk) |-> [path |-> DiskWalk[i], content |-> c[i]]],
              LAMBDA e : e.content.present)

ManifestNames == {"pyproject.toml", "setup.py", "requirements.txt",
                  "package.json", "tsconfig.json"}

NoManifest == [exists |-> FALSE, readable |-> FALSE, wellFormed |-> FALSE, names |-> {}]

\* A well-formed, readable manifest naming the given frameworks.
Manifest(names) == [exists |-> TRUE, readable |-> TRUE, wellFormed |-> TRUE, names |-> names]

\* A readable manifest whose text is not well-formed.
Malformed(names) == [Manifest(names) EXCEPT !.wellFormed = FALSE]

UnreadableManifest == [Manifest({}) EXCEPT !.readable = FALSE, !.wellFormed = FALSE]

NoManifests == [n \in ManifestNames |-> NoManifest]

ManifestChoices ==
    {NoManifests,
     [NoManifests EXCEPT !["pyproject.toml"] = Manifest({"pytest"}),
                         !["package.json"] = Malformed({}),
                         !["tsconfig.json"] = Manifest({})]}

HistoryPaths == {PathAPy, PathSrcBTs, PathNotesMd}

CommitC1 == [hash |-> RevC1, author |-> <<"a", "n", "n">>, date |-> <<"d", "1">>,
             filesChanged |-> 2]

CommitC2 == [hash |-> RevC2, author |-> <<"b", "o", "b">>, date |-> <<"d", "2">>,
             filesChanged |-> 1]

\* A repository at commit c2 (on top of c1) with uncommitted changes `dirty`,
\* the paths `delta` changed by c2, and per-file commit counts `touched`.
RepoWith(fails, dirty, delta, touched) ==
    [isRepo |-> TRUE, fails |-> fails, head |-> RevC2,
     branch |-> <<"m", "a", "i", "n">>,
     differing |-> (RevC2 :> dirty) @@ (RevC1 :> (delta \cup dirty)),
     commits |-> <<CommitC2, CommitC1>>,
     touched |-> touched,
     authors |-> [p \in HistoryPaths |-> {CommitC1.author, CommitC2.author}]]

NoRepo == [RepoWith({}, {}, {}, [p \in HistoryPaths |-> 0]) EXCEPT !.isRepo = FALSE]

PlainRepo == RepoWith({}, {}, {PathAPy, PathNotesMd}, [p \in HistoryPaths |-> 1])

Idle == [op |-> "none"]

-----------------------------------------------------------------------------
(* Spec: one analyze() call on a fixed on-disk state                       *)

Init ==
    /\ disk \in {DiskOf(c) : c \in DiskChoices}
    /\ manifests \in ManifestChoices
    /\ repo \in {NoRepo, PlainRepo}
    /\ call = Idle
    /\ summary = Undefined
    /\ threw = FALSE
    /\ gitInfo = Undefined
    /\ treeFiles = <<>>
    /\ tree = Undefined
    /\ optimized = Undefined
    /\ tracer = Undefined
    /\ tools = <<>>
    /\ rubricCache = NoRubrics

RECURSIVE SeqsUpTo(_, _)
SeqsUpTo(S, n) ==
    IF n = 0 THEN {<<>>}
    ELSE LET shorter == SeqsUpTo(S, n - 1)
         IN  shorter \cup {Append(q, x) : q \in shorter, x \in S}

OnlyFilesLists == SeqsUpTo({PathAPy, PathSrcBTs, PathZzPy}, MaxOnlyFiles)

\* The caller invokes analyze(options) and keeps the summary it returns.
DoAnalyze(options) ==
    /\ call = Idle
    /\ call' = [op |-> "analyze", options |-> options]
    /\ summary' = Analyze(disk, manifests, repo, options)
    /\ threw' = FALSE
    /\ UNCHANGED <<disk, manifests, repo, gitInfo, treeFiles, tree, optimized,
                   tracer, tools, rubricCache>>

AnalyzeFull ==
    \E withBaseline \in BOOLEAN :
        DoAnalyze([root |-> RootPath,
                   lastCommit |-> IF withBaseline THEN RevC1 ELSE NoString,
                   onlyFiles |-> NoList])

AnalyzeOnly ==
    \E only \in OnlyFilesLists :
        DoAnalyze([root |-> RootPath, lastCommit |-> RevC1, onlyFiles |-> only])

Next == AnalyzeFull \/ AnalyzeOnly

Spec == Init /\ [][Next]_vars

-----------------------------------------------------------------------------
(* Properties of analyze()                                                 *)

Analyzed == call.op = "analyze"

Incremental == Analyzed /\ call.options.onlyFiles # NoList

\* What a full analyze() returns on the same on-disk state.
FullSummary == Analyze(disk, manifests, repo, [call.options EXCEPT !.onlyFiles = NoList])

ModulesIn(modules, onlyFiles) == SelectSeq(modules, LAMBDA m : m.path \in Range(onlyFiles))

PathsOf(files) == {files[i].path : i \in 1..Len(files)}

\* C1 as stated: for every path list S, the empty list included,
\* analyze(onlyFiles = S).modules is analyze().modules filtered to the paths in S.
C1_IncrementalEqualsFilteredFull ==
    Incremental =>
        summary.modules = ModulesIn(FullSummary.modules, call.options.onlyFiles)

\* C1 amended: for every non-empty path list S (it may name paths that are not
\* scanned files, or one path twice), analyze(onlyFiles = S).modules is
\* analyze().modules filtered to the paths in S.
C1_NonEmptyIncrementalEqualsFilteredFull ==
    (Incremental /\ Len(call.options.onlyFiles) > 0) =>
        summary.modules = ModulesIn(FullSummary.modules, call.options.onlyFiles)

\* An incremental run that keeps one of two modules, its list also naming a
\* path that is not a scanned file.
C1_Witness ==
    /\ Incremental
    /\ PathZzPy \in Range(call.options.onlyFiles)
    /\ Len(summary.modules) = 1
    /\ Len(FullSummary.modules) = 2

\* C2 as stated: with a non-empty onlyFiles subset the file tree, the config
\* and the git info equal those of a full analyze() on the same on-disk state.
C2_IncrementalTreeConfigGitAreFull ==
    (Incremental /\ Len(call.options.onlyFiles) > 0) =>
        /\ summary.tree = FullSummary.tree
        /\ summary.config = FullSummary.config
        /\ summary.git = FullSummary.git

\* The scanned source files analyze() was asked to parse.
Selected(filePath) ==
    \/ ~Incremental
    \/ Len(call.options.onlyFiles) = 0
    \/ filePath \in Range(call.options.onlyFiles)

ScannedSources ==
    {e \in Range(disk) :
        /\ e.content.statOk
        /\ DetectRole(e.path) = "source"
        /\ DetectLanguage(e.path) # "other"
        /\ Selected(e.path)}

ModulesFor(filePath) == SelectSeq(summary.modules, LAMBDA m : m.path = filePath)

ParserResult(e) ==
    IF DetectLanguage(e.path) = "python" THEN PythonParse(e.content, e.path)
    ELSE TypeScriptParse(e.content, e.path)

C6_FailedParseYieldsEmptyModule ==
    Analyzed =>
        \A e \in ScannedSources :
            (e.content.readable
                /\ (e.content.grammarThrows \/ e.content.errors > MAX_SYNTAX_ERRORS)) =>
                    /\ ~ParserResult(e).threw
                    /\ ParserResult(e).value = CreateEmptyModule(e.path)
                    /\ ModulesFor(e.path) = <<CreateEmptyModule(e.path)>>

\* C10: when the root is not under version control getGitInfo returns
\* undefined and analyze() still returns a summary, whose git field is
\* undefined (not an object) while files, modules, config and tree are what
\* the same analysis produces inside a repository.
C10_NoRepoLeavesGitAbsent ==
    (Analyzed /\ ~repo.isRepo) =>
        /\ GetGitInfo(repo, call.options.lastCommit) = Undefined
        /\ ~threw
        /\ summary # Undefined
        /\ summary.git = Undefined
        /\ LET inRepo == Analyze(disk, manifests, PlainRepo, call.options)
           IN  /\ summary.files = inRepo.files
               /\ summary.modules = inRepo.modules
               /\ summary.config = inRepo.config
               /\ summary.tree = inRepo.tree

\* analyze() has returned modules and files for a root outside version control.
C10_Witness ==
    /\ Analyzed
    /\ ~repo.isRepo
    /\ summary.git = Undefined
    /\ Len(summary.modules) > 0
    /\ Len(summary.files) > Len(summary.modules)

-----------------------------------------------------------------------------
(* SpecTree: buildFileTree() on an arbitrary list of files                 *)

PathBTs == <<"b", ".", "t", "s">>

PathSrcAPy == <<"s", "r", "c", "/", "a", ".", "p", "y">>

PathSrcLibCTs == <<"s", "r", "c", "/", "l", "i", "b", "/", "c", ".", "t", "s">>

PathSrcLibDPy == <<"s", "r", "c", "/", "l", "i", "b", "/", "d", ".", "p", "y">>

PathLibETs == <<"l", "i", "b", "/", "e", ".", "t", "s">>

TreePaths == {PathAPy, PathBTs, PathSrcAPy, PathSrcLibCTs, PathSrcLibDPy, PathLibETs}

\* The lists of distinct paths of at most n entries, in every order.
RECURSIVE DistinctSeqs(_, _)
DistinctSeqs(S, n) ==
    IF n = 0 THEN {<<>>}
    ELSE LET shorter == DistinctSeqs(S, n - 1)
         IN  shorter \cup UNION {{Append(q, x) : x \in S \ Range(q)} : q \in shorter}

TreeInputs ==
    {[i \in 1..Len(q) |-> FileInfoOf(q[i])] : q \in DistinctSeqs(TreePaths, MaxTreeFiles)}

InitTree ==
    /\ treeFiles \in TreeInputs
    /\ disk = <<>>
    /\ manifests = NoManifests
    /\ repo = NoRepo
    /\ call = Idle
    /\ summary = Undefined
    /\ threw = FALSE
    /\ gitInfo = Undefined
    /\ tree = Undefined
    /\ optimized = Undefined
    /\ tracer = Undefined
    /\ tools = <<>>
    /\ rubricCache = NoRubrics

\* The caller invokes buildFileTree(treeFiles) with the default root name.
BuildTree ==
    /\ call = Idle
    /\ call' = [op |-> "buildFileTree"]
    /\ tree' = BuildFileTree(treeFiles, <<".">>)
    /\ threw' = FALSE
    /\ UNCHANGED <<disk, manifests, repo, summary, gitInfo, treeFiles, optimized,
                   tracer, tools, rubricCache>>

NextTree == BuildTree

SpecTree == InitTree /\ [][NextTree]_vars

TreeBuilt == call.op = "buildFileTree"

FileNodes == TraverseFiles(tree, <<RootNode(tree)>>)

DirectoryNodes == TraverseDirs(tree, <<RootNode(tree)>>)

\* C3: the file nodes of the tree returned by buildFileTree correspond
\* one-to-one to the input files: every input path is the path of exactly one
\* file node, there is no other file node, and getTreeStats(tree).files is the
\* input length.
C3_FileNodesMatchInput ==
    TreeBuilt =>
        /\ GetTreeStats(tree).files = Len(treeFiles)
        /\ \A f \in Range(treeFiles) :
               Cardinality({i \in 1..Len(FileNodes) : FileNodes[i].path = f.path}) = 1
        /\ \A i \in 1..Len(FileNodes) : FileNodes[i].path \in PathsOf(treeFiles)

\* A tree built from three files, two of them sharing a directory two levels
\* down, given in an order that is not path order.
C3_Witness ==
    /\ TreeBuilt
    /\ Len(treeFiles) >= 3
    /\ {PathSrcLibCTs, PathSrcLibDPy} \subseteq PathsOf(treeFiles)
    /\ treeFiles[1].path = PathSrcLibDPy
    /\ GetTreeStats(tree).directories >= 3

\* C4: at every directory node of the tree (the root and every nested
\* directory) the directory children come before the file children, and
\* within each group the children are in name order.
C4_ChildrenDirectoriesFirstThenByName ==
    TreeBuilt =>
        \A d \in 1..Len(DirectoryNodes) :
            LET children == tree.children[DirectoryNodes[d].path]
            IN  \A i, j \in 1..Len(children) :
                    i < j =>
                        /\ ~(children[i].type = "file" /\ children[j].type = "directory")
                        /\ children[i].type = children[j].type =>
                               LocaleCompare(children[i].name, children[j].name) <= 0

\* A built tree in which a nested directory holds a subdirectory and a file
\* whose name sorts before it.
C4_Witness ==
    /\ TreeBuilt
    /\ {PathSrcAPy, PathSrcLibCTs} \subseteq PathsOf(treeFiles)
    /\ Len(tree.children[<<"s", "r", "c">>]) = 2
    /\ tree.children[<<"s", "r", "c">>][1].type = "directory"
    /\ tree.children[<<"s", "r", "c">>][2].type = "file"

-----------------------------------------------------------------------------
(* SpecGit: getGitInfo() on a repository in which one git call may fail    *)

DiffPaths == {PathAPy, PathNotesMd}

FailureChoices == {{}} \cup {{c} : c \in GitCalls}

InitGit ==
    /\ repo \in {NoRepo} \cup
                {RepoWith(fails, dirty, delta, touched) :
                    fails \in FailureChoices,
                    dirty \in SUBSET DiffPaths,
                    delta \in SUBSET DiffPaths,
                    touched \in [HistoryPaths -> 0..MaxCommitCount]}
    /\ disk = <<>>
    /\ manifests = NoManifests
    /\ call = Idle
    /\ summary = Undefined
    /\ threw = FALSE
    /\ gitInfo = Undefined
    /\ treeFiles = <<>>
    /\ tree = Undefined
    /\ optimized = Undefined
    /\ tracer = Undefined
    /\ tools = <<>>
    /\ rubricCache = NoRubrics

\* The caller invokes getGitInfo(root, lastCommit).
CallGetGitInfo ==
    \E lastCommit \in {NoString, RevC1, RevC2} :
        /\ call = Idle
        /\ call' = [op |-> "getGitInfo", lastCommit |-> lastCommit]
        /\ gitInfo' = GetGitInfo(repo, lastCommit)
        /\ threw' = FALSE
        /\ UNCHANGED <<disk, manifests, repo, summary, treeFiles, tree, optimized,
                       tracer, tools, rubricCache>>

NextGit == CallGetGitInfo

SpecGit == InitGit /\ [][NextGit]_vars

GitInfoAsked == call.op = "getGitInfo"

SourcePathsTouched == {p \in HistoryPaths : repo.touched[p] > 0 /\ DetectLanguage(p) # "other"}

\* C8 as stated: on a root under version control, when at most one git
\* invocation fails getGitInfo still returns a GitInfo object; the piece of the
\* failed call is empty and every other piece carries what git answered.
C8_SingleFailureDegradesOnlyItsPiece ==
    (GitInfoAsked /\ repo.isRepo /\ Cardinality(repo.fails) <= 1) =>
        /\ gitInfo # Undefined
        /\ "revParseHead" \notin repo.fails => gitInfo.currentCommit = repo.head
        /\ "branch" \notin repo.fails => gitInfo.branch = repo.branch
        /\ gitInfo.recentCommits = IF "log" \in repo.fails THEN <<>> ELSE repo.commits
        /\ {gitInfo.fileHistory[i].path : i \in 1..Len(gitInfo.fileHistory)}
               = IF "nameOnlyLog" \in repo.fails THEN {} ELSE SourcePathsTouched
        /\ \A i \in 1..Len(gitInfo.fileHistory) :
               /\ gitInfo.fileHistory[i].commitCount = repo.touched[gitInfo.fileHistory[i].path]
               /\ "contributors" \in repo.fails <=> gitInfo.fileHistory[i].contributors = <<>>
               /\ "lastModified" \in repo.fails <=> gitInfo.fileHistory[i].lastModified = <<>>

\* C9 as stated: for every baseline revision given to getGitInfo, equal to the
\* HEAD commit or not, changedSince is the set of paths with a recognized
\* source extension that differ between the baseline and the working tree
\* (every git call succeeding).
C9_ChangedSinceIsDiffAgainstBaseline ==
    (GitInfoAsked /\ repo.isRepo /\ repo.fails = {} /\ call.lastCommit # NoString) =>
        Range(gitInfo.changedSince)
            = {p \in repo.differing[call.lastCommit] : DetectLanguage(p) # "other"}

-----------------------------------------------------------------------------
(* SpecPrompt: analyze(), then optimizeForPrompt() on the returned summary *)

PromptDisks ==
    {DiskOf(c) : c \in {c \in DiskChoices :
                           \A i \in 1..Len(DiskWalk) : c[i] \in {Absent, Parsed(0, MaxDecls)}}}

InitPrompt ==
    /\ disk \in PromptDisks
    /\ manifests \in ManifestChoices
    /\ repo \in {NoRepo} \cup
                {RepoWith(fails, {}, {PathAPy}, touched) :
                    fails \in {{}, {"nameOnlyLog"}},
                    touched \in [HistoryPaths -> 0..MaxCommitCount]}
    /\ call = Idle
    /\ summary = Undefined
    /\ threw = FALSE
    /\ gitInfo = Undefined
    /\ treeFiles = <<>>
    /\ tree = Undefined
    /\ optimized = Undefined
    /\ tracer = Undefined
    /\ tools = <<>>
    /\ rubricCache = NoRubrics

\* A consumer passes the summary it holds to optimizeForPrompt (directly or
\* through buildUserPrompt); the in-place sort acts on the summary's own array.
Optimize ==
    /\ call.op \in {"analyze", "optimizeForPrompt"}
    /\ call' = [op |-> "optimizeForPrompt"]
    /\ optimized' = OptimizeForPrompt(summary)
    /\ summary' = SummaryAfterOptimize(summary)
    /\ threw' = FALSE
    /\ UNCHANGED <<disk, manifests, repo, gitInfo, treeFiles, tree,
                   tracer, tools, rubricCache>>

NextPrompt == AnalyzeFull \/ Optimize

SpecPrompt == InitPrompt /\ [][NextPrompt]_vars

\* C7: a summary returned by analyze() is not changed by optimizeForPrompt:
\* after the call every field, the order of git.fileHistory included, is what
\* it was before the call.
C7_OptimizeLeavesSummaryUnchanged ==
    [][call'.op = "optimizeForPrompt" => summary' = summary]_vars

\* optimizeForPrompt has run on a summary whose file history holds two files
\* with the same commit count.
C7_Witness ==
    /\ call.op = "optimizeForPrompt"
    /\ summary.git # Undefined
    /\ Len(summary.git.fileHistory) >= 2
    /\ summary.git.fileHistory[1].commitCount = summary.git.fileHistory[2].commitCount
    /\ Len(optimized.git.activeFiles) >= 2

-----------------------------------------------------------------------------
(* SpecRoot: analyze() on a root that exists or on one that does not       *)

\* A root path that names no directory.
MissingRoot == <<"g", "o", "n", "e">>

\* What the calls of analyze() find under `root`. Under a path that does not
\* exist glob() matches nothing (it resolves to an empty list), fs.access
\* rejects for every manifest, and `git rev-parse --git-dir` cannot be started.
DiskAt(root, d) == IF root = RootPath THEN d ELSE <<>>

ManifestsAt(root, m) == IF root = RootPath THEN m ELSE NoManifests

RepoAt(root, r) == IF root = RootPath THEN r ELSE NoRepo

\* How analyze(options) completes. Each await that can reject sits in a
\* try/catch of its own (fs.stat in scanDirectory, readFile/parse in the parse
\* loop, readFile/JSON.parse in detectConfig, fs.access in fileExists, every
\* execAsync in the history collector), so no path of analyze() rejects.
AnalyzeOutcome(d, m, r, options) ==
    Returned(Analyze(DiskAt(options.root, d), ManifestsAt(options.root, m),
                     RepoAt(options.root, r), options))

InitRoot ==
    /\ disk \in {DiskOf(c) : c \in DiskChoices}
    /\ manifests \in ManifestChoices
    /\ repo \in {NoRepo} \cup
                {RepoWith(fails, {}, {PathAPy}, [p \in HistoryPaths |-> 1]) :
                    fails \in FailureChoices}
    /\ call = Idle
    /\ summary = Undefined
    /\ threw = FALSE
    /\ gitInfo = Undefined
    /\ treeFiles = <<>>
    /\ tree = Undefined
    /\ optimized = Undefined
    /\ tracer = Undefined
    /\ tools = <<>>
    /\ rubricCache = NoRubrics

\* The caller invokes analyze({root}) and observes how it completes.
AnalyzeRoot ==
    \E root \in {RootPath, MissingRoot} :
        LET options == [root |-> root, lastCommit |-> NoString, onlyFiles |-> NoList]
            outcome == AnalyzeOutcome(disk, manifests, repo, options)
        IN  /\ call = Idle
            /\ call' = [op |-> "analyze", options |-> options]
            /\ summary' = outcome.value
            /\ threw' = outcome.threw
            /\ UNCHANGED <<disk, manifests, repo, gitInfo, treeFiles, tree, optimized,
                           tracer, tools, rubricCache>>

NextRoot == AnalyzeRoot

SpecRoot == InitRoot /\ [][NextRoot]_vars

\* C11 as stated: analyze() throws when the root path does not exist, and in
\* no other case (not on a failing stat, read or parse of a file, a failing git
\* call, or an unreadable or malformed manifest).
C11_ThrowsExactlyOnMissingRoot ==
    Analyzed => (threw <=> call.options.root = MissingRoot)

\* The half of C11 the code keeps: analyze() on an existing root never throws.
C11_ExistingRootNeverThrows ==
    (Analyzed /\ call.options.root = RootPath) => ~threw /\ summary # Undefined

-----------------------------------------------------------------------------
(* SpecScan: analyze() with the stat calls of scanDirectory settling one   *)
(* by one, in any order, over a root with files of every role              *)

PathBTsx == <<"b", ".", "t", "s", "x">>

PathReadmeMd == <<"R", "E", "A", "D", "M", "E", ".", "m", "d">>

PathDocsGuideJs == <<"d", "o", "c", "s", "/", "g", "u", "i", "d", "e", ".", "j", "s">>

PathTestCTs == <<"t", "e", "s", "t", "_", "c", ".", "t", "s">>

PathAppConfigJsx ==
    <<"a", "p", "p", ".", "c", "o", "n", "f", "i", "g", ".", "j", "s", "x">>

\* The directory walk of the root visits the candidate files in this order.
ScanWalk == <<PathReadmeMd, PathAPy, PathDocsGuideJs, PathBTsx, PathTestCTs,
              PathAppConfigJsx>>

Present == Parsed(0, MaxDecls)

\* What each candidate file may be on disk.
ScanContents(filePath) ==
    IF filePath = PathAPy THEN {Absent, Present, StatFails, Unreadable, GrammarThrows}
    ELSE IF filePath = PathBTsx THEN {Absent, Present, StatFails, GrammarThrows}
    ELSE IF filePath = PathAppConfigJsx THEN {Absent, Present, StatFails}
    ELSE {Absent, Present}

ScanDisks ==
    {[i \in 1..Len(ScanWalk) |-> [path |-> ScanWalk[i], content |-> c[i]]] :
        c \in {c \in [1..Len(ScanWalk) -> {Absent, Present, StatFails, Unreadable, GrammarThrows}] :
                  \A i \in 1..Len(ScanWalk) : c[i] \in ScanContents(ScanWalk[i])}}

InitScan ==
    /\ disk \in {SelectSeq(d, LAMBDA e : e.content.present) : d \in ScanDisks}
    /\ manifests = NoManifests
    /\ repo = NoRepo
    /\ call = Idle
    /\ summary = Undefined
    /\ threw = FALSE
    /\ gitInfo = Undefined
    /\ treeFiles = <<>>
    /\ tree = Undefined
    /\ optimized = Undefined
    /\ tracer = Undefined
    /\ tools = <<>>
    /\ rubricCache = NoRubrics

ScanOnlyFiles == {NoList, <<PathAPy, PathAPy>>, <<PathBTsx, PathReadmeMd>>}

\* analyze(options) up to `await scanDirectory(root)`: the globs have matched
\* and one fs.stat per unique path is in flight.
ScanStart ==
    \E only \in ScanOnlyFiles :
        LET uniqueFiles == UniqueFiles(disk)
        IN  /\ call = Idle
            /\ call' = [op |-> "analyze", pc |-> "stat",
                        options |-> [root |-> RootPath, lastCommit |-> NoString,
                                     onlyFiles |-> only],
                        uniqueFiles |-> uniqueFiles,
                        pending |-> 1..Len(uniqueFiles),
                        fileInfos |-> [i \in 1..Len(uniqueFiles) |-> Null],
                        reordered |-> FALSE,
                        scanned |-> <<>>]
            /\ UNCHANGED <<disk, manifests, repo, summary, threw, gitInfo, treeFiles,
                           tree, optimized,
                           tracer, tools, rubricCache>>

\* One of the stat calls in flight settles: its mapper resolves with the
\* FileInfo, or with null after catching the rejection. Promise.all stores the
\* value at the index of the path.
StatSettles ==
    /\ call.op = "analyze" /\ call.pc = "stat"
    /\ \E i \in call.pending :
        /\ call' = [call EXCEPT
                       !.pending = @ \ {i},
                       !.fileInfos[i] = StatResult(disk, call.uniqueFiles[i]),
                       !.reordered = @ \/ \E j \in call.pending : j < i]
        /\ UNCHANGED <<disk, manifests, repo, summary, threw, gitInfo, treeFiles,
                       tree, optimized,
                       tracer, tools, rubricCache>>

\* Every stat has settled: scanDirectory resolves and analyze() runs its
\* sequential remainder (filter, parse loop, config, git, tree) to the return.
ScanFinish ==
    /\ call.op = "analyze" /\ call.pc = "stat" /\ call.pending = {}
    /\ LET scanned == NonNull(call.fileInfos)
       IN  /\ call' = [call EXCEPT !.pc = "done", !.scanned = scanned]
           /\ summary' = AnalyzeScanned(scanned, disk, manifests, repo, call.options)
    /\ threw' = FALSE
    /\ UNCHANGED <<disk, manifests, repo, gitInfo, treeFiles, tree, optimized,
                   tracer, tools, rubricCache>>

NextScan == ScanStart \/ StatSettles \/ ScanFinish

SpecScan == InitScan /\ [][NextScan]_vars

ScanDone == call.op = "analyze" /\ call.pc = "done"

OnDisk(filePath) == \E i \in 1..Len(disk) : disk[i].path = filePath

FilesAt(files, filePath) == SelectSeq(files, LAMBDA f : f.path = filePath)

\* C12 as stated: when the root holds README.md next to source files, the
\* summary of a full analyze() lists README.md in files with role 'docs' and
\* has no module for it.
C12_ReadmeListedAsDocs ==
    (ScanDone /\ call.options.onlyFiles = NoList
        /\ OnDisk(PathReadmeMd) /\ ContentOf(disk, PathReadmeMd).statOk
        /\ \E e \in Range(disk) : DetectRole(e.path) = "source" /\ e.content.statOk) =>
            /\ Len(FilesAt(summary.files, PathReadmeMd)) = 1
            /\ FilesAt(summary.files, PathReadmeMd)[1].role = "docs"
            /\ ModulesFor(PathReadmeMd) = <<>>

SourceExtensions == {ScanPatterns[i] : i \in 1..Len(ScanPatterns)}

\* C13: every FileInfo scanDirectory returns has a path with one of the
\* extensions .py, .ts, .tsx, .js, .jsx, and its lang follows from that
\* extension alone (.py python, the other four typescript); a file on disk with
\* any other extension is not in the result.
C13_ScannedFilesHaveSourceExtensionAndItsLanguage ==
    ScanDone =>
        /\ \A i \in 1..Len(call.scanned) :
               /\ ExtName(call.scanned[i].path) \in SourceExtensions
               /\ call.scanned[i].lang =
                      IF ExtName(call.scanned[i].path) = <<".", "p", "y">>
                      THEN "python" ELSE "typescript"
        /\ \A e \in Range(disk) :
               ExtName(e.path) \notin SourceExtensions =>
                   FilesAt(call.scanned, e.path) = <<>>

\* A scan has returned files of all five extensions from a root that also
\* holds README.md.
C13_Witness ==
    /\ ScanDone
    /\ OnDisk(PathReadmeMd)
    /\ {ExtName(call.scanned[i].path) : i \in 1..Len(call.scanned)} = SourceExtensions

\* The paths the globs matched whose stat succeeds, in match order.
StatOkMatches == SelectSeq(UniqueFiles(disk), LAMBDA p : ContentOf(disk, p).statOk)

\* C14: a stat failure on one file drops only that file: the scan does not
\* throw, and its result holds exactly the matched files whose stat succeeds,
\* in whatever order the concurrent stat calls settle.
C14_StatFailureDropsOnlyThatFile ==
    ScanDone =>
        /\ ~threw
        /\ [i \in 1..Len(call.scanned) |-> call.scanned[i].path] = StatOkMatches

\* A scan in which a stat failed, the stat calls settled out of index order,
\* and two other files were still returned.
C14_Witness ==
    /\ ScanDone
    /\ call.reordered
    /\ \E i \in 1..Len(call.fileInfos) : call.fileInfos[i] = Null
    /\ Len(call.scanned) >= 2

SortedByPath(entries) ==
    \A i, j \in 1..Len(entries) :
        i < j => LocaleCompare(entries[i].path, entries[j].path) < 0

\* C15 as stated: the files and modules lists of the summary are sorted (by
\* path) and free of duplicates when they are handed to buildFileTree, and for
\* a fixed on-disk state every order in which the stat calls settle yields the
\* same two lists in the same order.
C15_ListsSortedAndInterleavingIndependent ==
    ScanDone =>
        /\ SortedByPath(summary.files)
        /\ SortedByPath(summary.modules)
        /\ summary.files = Analyze(disk, manifests, repo, call.options).files
        /\ summary.modules = Analyze(disk, manifests, repo, call.options).modules

\* The part of C15 the code keeps: the two lists do not depend on the order in
\* which the stat calls settle, and hold no path twice.
C15_ListsInterleavingIndependent ==
    ScanDone =>
        /\ summary.files = Analyze(disk, manifests, repo, call.options).files
        /\ summary.modules = Analyze(disk, manifests, repo, call.options).modules
        /\ \A i, j \in 1..Len(summary.files) :
               i # j => summary.files[i].path # summary.files[j].path

RolesOf(files) == {files[i].role : i \in 1..Len(files)}

\* C16: summary.modules holds exactly one ModuleInfo for each file of
\* summary.files with role 'source' and lang python/typescript that was read
\* and for which parse() returned a ModuleInfo (a degraded, empty one included),
\* and none for any other file: module paths are pairwise distinct, each is the
\* path of a files entry with role 'source', and a file with role test, config
\* or docs has no module.
C16_OneModulePerParsedSourceFile ==
    ScanDone =>
        /\ \A i, j \in 1..Len(summary.modules) :
               i # j => summary.modules[i].path # summary.modules[j].path
        /\ \A i \in 1..Len(summary.modules) :
               \E k \in 1..Len(summary.files) :
                   /\ summary.files[k].path = summary.modules[i].path
                   /\ summary.files[k].role = "source"
        /\ \A k \in 1..Len(summary.files) :
               LET f == summary.files[k]
                   e == [path |-> f.path, content |-> ContentOf(disk, f.path)]
               IN  Len(ModulesFor(f.path)) =
                       IF /\ f.role = "source"
                          /\ f.lang \in {"python", "typescript"}
                          /\ e.content.readable
                          /\ ~ParserResult(e).threw
                       THEN 1 ELSE 0

\* A summary whose files have all four roles, with one module: the Python
\* source file could not be parsed and is left out.
C16_Witness ==
    /\ ScanDone
    /\ RolesOf(summary.files) = {"source", "test", "config", "docs"}
    /\ FilesAt(summary.files, PathAPy) # <<>>
    /\ ContentOf(disk, PathAPy).grammarThrows
    /\ Len(summary.modules) = 1

\* C17: the paths of summary.files are pairwise distinct, in full mode and in
\* incremental mode, also when onlyFiles names one path twice.
C17_FilePathsDistinct ==
    ScanDone =>
        \A i, j \in 1..Len(summary.files) :
            i # j => summary.files[i].path # summary.files[j].path

\* An incremental run whose onlyFiles names a.py twice has returned a.py once,
\* from a root holding other files too.
C17_Witness ==
    /\ ScanDone
    /\ call.options.onlyFiles = <<PathAPy, PathAPy>>
    /\ Len(call.scanned) >= 3
    /\ Len(summary.files) = 1
    /\ summary.files[1].path = PathAPy

-----------------------------------------------------------------------------
(* SpecConfig: detectConfig() on a root with any mix of manifests          *)

PyprojectChoices ==
    {NoManifest, Manifest({}), Manifest({"pytest"}), Malformed({}),
     Malformed({"pytest"}), UnreadableManifest}

RequirementsChoices == {NoManifest, Manifest({}), Manifest({"pytest"}), UnreadableManifest}

PackageJsonChoices ==
    {NoManifest, Manifest({}), Manifest({"vitest"}), Manifest({"jest"}),
     Manifest({"vitest", "jest"}), Malformed({}), Malformed({"jest"}),
     UnreadableManifest}

InitConfig ==
    /\ manifests \in
           {[n \in ManifestNames |->
                CASE n = "pyproject.toml" -> py
                  [] n = "requirements.txt" -> req
                  [] n = "package.json" -> pkg
                  [] n = "setup.py" -> IF setup THEN Manifest({}) ELSE NoManifest
                  [] n = "tsconfig.json" -> IF ts THEN Manifest({}) ELSE NoManifest] :
               py \in PyprojectChoices, req \in RequirementsChoices,
               pkg \in PackageJsonChoices, setup \in BOOLEAN, ts \in BOOLEAN}
    /\ disk = <<>>
    /\ repo = NoRepo
    /\ call = Idle
    /\ summary = Undefined
    /\ threw = FALSE
    /\ gitInfo = Undefined
    /\ treeFiles = <<>>
    /\ tree = Undefined
    /\ optimized = Undefined
    /\ tracer = Undefined
    /\ tools = <<>>
    /\ rubricCache = NoRubrics

\* The caller invokes detectConfig(root) and keeps the value it resolves with
\* (every rejection inside is caught where it arises, so it always resolves).
CallDetectConfig ==
    /\ call = Idle
    /\ call' = [op |-> "detectConfig", result |-> DetectConfig(manifests)]
    /\ threw' = FALSE
    /\ UNCHANGED <<disk, manifests, repo, summary, gitInfo, treeFiles, tree, optimized,
                   tracer, tools, rubricCache>>

NextConfig == CallDetectConfig

SpecConfig == InitConfig /\ [][NextConfig]_vars

ConfigAsked == call.op = "detectConfig"

\* The manifest exists but cannot be read or is not well-formed.
Broken(name) ==
    manifests[name].exists /\ (~manifests[name].readable \/ ~manifests[name].wellFormed)

\* The manifest exists, can be read and is well-formed.
Intact(name) ==
    manifests[name].exists /\ manifests[name].readable /\ manifests[name].wellFormed

\* C18 as stated: detectConfig never throws; an ecosystem without any manifest
\* has no block in the result; and when a manifest of an ecosystem exists but
\* is unreadable or malformed (and no other manifest the detector reads for
\* that ecosystem is intact), the block of that ecosystem is present with
\* testFramework 'none' and flags that reflect file existence only.
C18_BrokenManifestYieldsNoFramework ==
    ConfigAsked =>
        LET config == call.result
            anyPython == \E n \in {"pyproject.toml", "setup.py", "requirements.txt"} :
                             manifests[n].exists
            anyTypescript == \E n \in {"package.json", "tsconfig.json"} : manifests[n].exists
        IN  /\ ~threw
            /\ ~anyPython => config.python = Undefined
            /\ ~anyTypescript => config.typescript = Undefined
            /\ ((Broken("pyproject.toml") \/ Broken("requirements.txt"))
                   /\ ~Intact("pyproject.toml") /\ ~Intact("requirements.txt")) =>
                   /\ config.python # Undefined
                   /\ config.python.testFramework = "none"
                   /\ config.python.pyprojectToml = manifests["pyproject.toml"].exists
                   /\ config.python.setupPy = manifests["setup.py"].exists
            /\ Broken("package.json") =>
                   /\ config.typescript # Undefined
                   /\ config.typescript.testFramework = "none"
                   /\ config.typescript.packageJson = manifests["package.json"].exists
                   /\ config.typescript.tsconfig = manifests["tsconfig.json"].exists
                   /\ config.typescript.hasTypes = manifests["tsconfig.json"].exists

\* What the code keeps of C18: the same, with the Python framework 'none'
\* exactly when neither readable text of pyproject.toml and requirements.txt
\* holds the word pytest, well-formed or not.
C18_FrameworkFollowsReadableText ==
    ConfigAsked =>
        LET config == call.result
            anyPython == \E n \in {"pyproject.toml", "setup.py", "requirements.txt"} :
                             manifests[n].exists
            anyTypescript == \E n \in {"package.json", "tsconfig.json"} : manifests[n].exists
        IN  /\ ~threw
            /\ anyPython <=> config.python # Undefined
            /\ anyTypescript <=> config.typescript # Undefined
            /\ anyPython =>
                   (config.python.testFramework = "none" <=>
                        /\ ~MentionsPytest(manifests["pyproject.toml"])
                        /\ ~MentionsPytest(manifests["requirements.txt"]))
            /\ Broken("package.json") => config.typescript.testFramework = "none"

-----------------------------------------------------------------------------
(* SpecParse: parse() of either parser on one source text                  *)

\* Largest number of declarations in the text handed to parse().
MaxParseDecls == 17

ParseContents ==
    {GrammarThrows} \cup
    {Parsed(e, n) : e \in {0, 1, MAX_SYNTAX_ERRORS + 1}, n \in 0..MaxParseDecls}

InitParse ==
    /\ disk \in {<<[path |-> p, content |-> c]>> :
                    p \in {PathAPy, PathBTsx}, c \in ParseContents}
    /\ manifests = NoManifests
    /\ repo = NoRepo
    /\ call = Idle
    /\ summary = Undefined
    /\ threw = FALSE
    /\ gitInfo = Undefined
    /\ treeFiles = <<>>
    /\ tree = Undefined
    /\ optimized = Undefined
    /\ tracer = Undefined
    /\ tools = <<>>
    /\ rubricCache = NoRubrics

\* The parser of the file's language parses its text: parse(source, filePath)
\* returns a ModuleInfo or throws.
ParseFile ==
    LET file == disk[1]
        outcome == IF DetectLanguage(file.path) = "python"
                   THEN PythonParse(file.content, file.path)
                   ELSE TypeScriptParse(file.content, file.path)
    IN  /\ call = Idle
        /\ call' = [op |-> "parse", lang |-> DetectLanguage(file.path),
                    module |-> outcome.value]
        /\ threw' = outcome.threw
        /\ UNCHANGED <<disk, manifests, repo, summary, gitInfo, treeFiles, tree, optimized,
                       tracer, tools, rubricCache>>

NextParse == ParseFile

SpecParse == InitParse /\ [][NextParse]_vars

ParseReturned == call.op = "parse" /\ ~threw

\* C19: every ModuleInfo a parser returns, a degraded or empty one included,
\* has the complexity its number of exports gives: 'low' up to 5, 'medium'
\* from 6 to 15, 'high' from 16 on.
C19_ComplexityFollowsExportCount ==
    ParseReturned =>
        LET n == Len(call.module.exports)
        IN  call.module.complexity =
                IF n <= 5 THEN "low" ELSE IF n <= 15 THEN "medium" ELSE "high"

\* The TypeScript parser has returned a module at the upper boundary of the
\* middle tier: 15 exports, medium.
C19_Witness ==
    /\ ParseReturned
    /\ call.lang = "typescript"
    /\ Len(call.module.exports) = 15
    /\ call.module.complexity = "medium"

-----------------------------------------------------------------------------
(* Tracer                                                                  *)

\* The Tracer after its constructor (the id, the time stamps, the token
\* counters and the introspection and generation parts are not modelled).
NewTracer ==
    [currentToolCall |-> Undefined,
     toolCalls |-> <<>>,
     status |-> "success",
     errors |-> <<>>,
     execution |-> [testsPassed |-> 0, testsFailed |-> 0, testsSkipped |-> 0,
                    failures |-> <<>>]]

\* recordToolStart(name, input): the single slot is overwritten.
RecordToolStart(t, name, input) ==
    [t EXCEPT !.currentToolCall = [name |-> name, input |-> input]]

\* recordToolEnd(name, output): logs a ToolCall only when the slot holds a
\* call of that name, pairing the slot's input with this output.
RecordToolEnd(t, name, output) ==
    IF t.currentToolCall # Undefined /\ t.currentToolCall.name = name
    THEN [t EXCEPT !.toolCalls = Append(@, [tool |-> name,
                                            input |-> t.currentToolCall.input,
                                            output |-> output]),
                   !.currentToolCall = Undefined]
    ELSE t

\* recordExecution(data): Object.assign(this.trace.execution, data).
RecordExecution(t, data) ==
    [t EXCEPT !.execution = [k \in DOMAIN @ |-> IF k \in DOMAIN data THEN data[k] ELSE @[k]]]

\* recordTestFailure(failure)
RecordTestFailure(t, failure) ==
    [t EXCEPT !.execution.failures = Append(@, failure),
              !.execution.testsFailed = @ + 1]

\* recordTestPass()
RecordTestPass(t) == [t EXCEPT !.execution.testsPassed = @ + 1]

\* A recordError that marks the trace 'partial' whatever its status was.
RecordErrorAlwaysPartial(t, message) ==
    [t EXCEPT !.errors = Append(@, message), !.status = "partial"]

\* recordError(error, context)
RecordError(t, message) ==
    [t EXCEPT !.errors = Append(@, message),
              !.status = IF @ = "success" THEN "partial" ELSE @]

\* setStatus(status)
SetStatus(t, status) == [t EXCEPT !.status = status]

\* finalize(): the trace object it returns (completedAt and duration are not
\* modelled).
Finalize(t) ==
    IF Len(t.errors) > 0 /\ t.execution.testsPassed = 0
    THEN [t EXCEPT !.status = "failed"]
    ELSE t

-----------------------------------------------------------------------------
(* SpecTracer: the hooks of an agent run report tool calls to one Tracer   *)

\* Number of tool calls the agent makes.
MaxToolCalls == 3

ToolIds == 1..MaxToolCalls

ToolNames == {"Read", "Grep"}

InitTracer ==
    /\ tracer = NewTracer
    /\ tools = [id \in ToolIds |-> [state |-> "idle", name |-> NotSet]]
    /\ rubricCache = NoRubrics
    /\ disk = <<>>
    /\ manifests = NoManifests
    /\ repo = NoRepo
    /\ call = Idle
    /\ summary = Undefined
    /\ threw = FALSE
    /\ gitInfo = Undefined
    /\ treeFiles = <<>>
    /\ tree = Undefined
    /\ optimized = Undefined

\* The PreToolUse hook: tool call `id` starts; its input and its output are
\* both tagged with the id, so the calls can be told apart.
ToolStarts ==
    \E id \in ToolIds, name \in ToolNames :
        /\ tools[id].state = "idle"
        /\ tools' = [tools EXCEPT ![id] = [state |-> "running", name |-> name]]
        /\ tracer' = RecordToolStart(tracer, name, id)
        /\ UNCHANGED <<disk, manifests, repo, call, summary, threw, gitInfo, treeFiles,
                       tree, optimized, rubricCache>>

\* The PostToolUse hook: a running tool call ends.
ToolEnds ==
    \E id \in ToolIds :
        /\ tools[id].state = "running"
        /\ tools' = [tools EXCEPT ![id].state = "ended"]
        /\ tracer' = RecordToolEnd(tracer, tools[id].name, id)
        /\ UNCHANGED <<disk, manifests, repo, call, summary, threw, gitInfo, treeFiles,
                       tree, optimized, rubricCache>>

NextTracer == ToolStarts \/ ToolEnds

SpecTracer == InitTracer /\ [][NextTracer]_vars

LoggedFor(id) ==
    SelectSeq(tracer.toolCalls,
              LAMBDA c : c.tool = tools[id].name /\ c.input = id /\ c.output = id)

\* C20 as stated: every tool call reported by recordToolStart and later by
\* recordToolEnd is logged as one ToolCall (its name, its input, its output) in
\* trace.analysis.toolCalls, however the starts and ends of different calls
\* interleave.
C20_EveryEndedToolCallLogged ==
    \A id \in ToolIds : tools[id].state = "ended" => Len(LoggedFor(id)) = 1

-----------------------------------------------------------------------------
(* SpecStages: analyze() in full mode, one stage per step, each stage      *)
(* announced through onProgress before it runs                             *)

FullOptions == [root |-> RootPath, lastCommit |-> NoString, onlyFiles |-> NoList]

InitStages ==
    /\ disk \in PromptDisks
    /\ manifests \in ManifestChoices
    /\ repo \in {NoRepo, PlainRepo}
    /\ call = Idle
    /\ summary = Undefined
    /\ threw = FALSE
    /\ gitInfo = Undefined
    /\ treeFiles = <<>>
    /\ tree = Undefined
    /\ optimized = Undefined
    /\ tracer = Undefined
    /\ tools = <<>>
    /\ rubricCache = NoRubrics

\* onProgress('Scanning directory...'); files = await scanDirectory(root),
\* then the onlyFiles filter.
StageScan ==
    /\ call = Idle
    /\ call' = [op |-> "analyze", pc |-> "parse", options |-> FullOptions,
                progress |-> <<"scan">>,
                files |-> FilterOnlyFiles(ScanDirectory(disk), FullOptions.onlyFiles),
                modules |-> <<>>, config |-> Undefined, git |-> Undefined,
                tree |-> Undefined]
    /\ UNCHANGED <<disk, manifests, repo, summary, threw, gitInfo, treeFiles, tree,
                   optimized, tracer, tools, rubricCache>>

\* onProgress('Parsing N modules...'); the parse loop over the source files.
StageParse ==
    /\ call.op = "analyze" /\ call.pc = "parse"
    /\ call' = [call EXCEPT
                   !.pc = "config",
                   !.progress = Append(@, "parse"),
                   !.modules = ParseAll(<<>>, disk,
                                   SelectSeq(call.files,
                                       LAMBDA f : f.role = "source" /\ f.lang # "other"))]
    /\ UNCHANGED <<disk, manifests, repo, summary, threw, gitInfo, treeFiles, tree,
                   optimized, tracer, tools, rubricCache>>

\* onProgress('Detecting project configuration...'); config = await detectConfig(root)
StageConfig ==
    /\ call.op = "analyze" /\ call.pc = "config"
    /\ call' = [call EXCEPT !.pc = "history",
                            !.progress = Append(@, "config"),
                            !.config = DetectConfig(manifests)]
    /\ UNCHANGED <<disk, manifests, repo, summary, threw, gitInfo, treeFiles, tree,
                   optimized, tracer, tools, rubricCache>>

\* onProgress('Getting git info...'); git = await getGitInfo(root, lastCommit)
StageHistory ==
    /\ call.op = "analyze" /\ call.pc = "history"
    /\ call' = [call EXCEPT !.pc = "tree",
                            !.progress = Append(@, "history"),
                            !.git = GetGitInfo(repo, call.options.lastCommit)]
    /\ UNCHANGED <<disk, manifests, repo, summary, threw, gitInfo, treeFiles, tree,
                   optimized, tracer, tools, rubricCache>>

\* onProgress('Building file tree...'); tree = buildFileTree(files, basename(root))
StageTree ==
    /\ call.op = "analyze" /\ call.pc = "tree"
    /\ call' = [call EXCEPT !.pc = "merge",
                            !.progress = Append(@, "tree"),
                            !.tree = BuildFileTree(call.files, BaseName(call.options.root))]
    /\ UNCHANGED <<disk, manifests, repo, summary, threw, gitInfo, treeFiles, tree,
                   optimized, tracer, tools, rubricCache>>

\* detectLanguages, onProgress('Analysis complete'), and the returned literal.
StageMerge ==
    /\ call.op = "analyze" /\ call.pc = "merge"
    /\ call' = [call EXCEPT !.pc = "done", !.progress = Append(@, "merge")]
    /\ summary' = [languages |-> DetectLanguages(call.files),
                   root |-> call.options.root,
                   files |-> call.files,
                   modules |-> call.modules,
                   config |-> call.config,
                   git |-> call.git,
                   tree |-> call.tree]
    /\ UNCHANGED <<disk, manifests, repo, threw, gitInfo, treeFiles, tree,
                   optimized, tracer, tools, rubricCache>>

NextStages ==
    StageScan \/ StageParse \/ StageConfig \/ StageHistory \/ StageTree \/ StageMerge

SpecStages == InitStages /\ [][NextStages]_vars

StagesDone == call.op = "analyze" /\ call.pc = "done"

\* C21 as stated: in full mode the stages run in the order scan, parse,
\* collect history, detect config, build tree, merge, one after the other (as
\* the onProgress messages show).
C21_StagesInSpecOrder ==
    StagesDone =>
        call.progress = <<"scan", "parse", "history", "config", "tree", "merge">>

\* The order the code runs them in, and the summary is that of analyze().
C21_StagesInCodeOrder ==
    StagesDone =>
        /\ call.progress = <<"scan", "parse", "config", "history", "tree", "merge">>
        /\ summary = Analyze(disk, manifests, repo, call.options)

-----------------------------------------------------------------------------
(* SpecRole: detectRole() on paths put together from a directory, a file   *)
(* stem and an extension, each carrying known markers                      *)

Chars(dir) ==
    CASE dir = "" -> <<>>
      [] dir = "src/" -> <<"s", "r", "c", "/">>
      [] dir = "src/tests/" -> <<"s", "r", "c", "/", "t", "e", "s", "t", "s", "/">>
      [] dir = "pkg/__tests__/" ->
             <<"p", "k", "g", "/", "_", "_", "t", "e", "s", "t", "s", "_", "_", "/">>
      [] dir = "lib/test/" -> <<"l", "i", "b", "/", "t", "e", "s", "t", "/">>
      [] dir = "Config/" -> <<"C", "o", "n", "f", "i", "g", "/">>
      [] dir = "docs/" -> <<"d", "o", "c", "s", "/">>
      [] dir = "app/settings/" ->
             <<"a", "p", "p", "/", "s", "e", "t", "t", "i", "n", "g", "s", "/">>
      [] dir = "a" -> <<"a">>
      [] dir = "test_a" -> <<"t", "e", "s", "t", "_", "a">>
      [] dir = "a_test" -> <<"a", "_", "t", "e", "s", "t">>
      [] dir = "a.test" -> <<"a", ".", "t", "e", "s", "t">>
      [] dir = "a.spec" -> <<"a", ".", "s", "p", "e", "c">>
      [] dir = "settings" -> <<"s", "e", "t", "t", "i", "n", "g", "s">>
      [] dir = "README" -> <<"R", "E", "A", "D", "M", "E">>
      [] dir = "config_doc" -> <<"c", "o", "n", "f", "i", "g", "_", "d", "o", "c">>
      [] dir = "conftest" -> <<"c", "o", "n", "f", "t", "e", "s", "t">>
      [] dir = "setup" -> <<"s", "e", "t", "u", "p">>
      [] dir = ".py" -> <<".", "p", "y">>
      [] dir = ".ts" -> <<".", "t", "s">>
      [] dir = ".tsx" -> <<".", "t", "s", "x">>
      [] dir = ".js" -> <<".", "j", "s">>
      [] dir = ".jsx" -> <<".", "j", "s", "x">>

RoleDirs == {"", "src/", "src/tests/", "pkg/__tests__/", "lib/test/", "Config/", "docs/",
             "app/settings/"}

RoleStems == {"a", "test_a", "a_test", "a.test", "a.spec", "settings", "README",
              "config_doc", "conftest", "setup"}

RoleExts == {".py", ".ts", ".tsx", ".js", ".jsx"}

\* The markers a path carries by the way it was put together.
CarriesTest(dir, stem, ext) ==
    \/ dir \in {"src/tests/", "pkg/__tests__/", "lib/test/"}
    \/ stem = "test_a"
    \/ stem = "a_test" /\ ext = ".py"
    \/ stem \in {"a.test", "a.spec"} /\ ext \in {".ts", ".tsx", ".js"}

CarriesConfig(dir, stem, ext) ==
    \/ dir \in {"Config/", "app/settings/"}
    \/ stem \in {"settings", "config_doc"}
    \/ stem \in {"conftest", "setup"} /\ ext = ".py"

CarriesDocs(dir, stem, ext) ==
    \/ dir = "docs/"
    \/ stem \in {"README", "config_doc"}

InitRole ==
    /\ call = Idle
    /\ disk = <<>>
    /\ manifests = NoManifests
    /\ repo = NoRepo
    /\ summary = Undefined
    /\ threw = FALSE
    /\ gitInfo = Undefined
    /\ treeFiles = <<>>
    /\ tree = Undefined
    /\ optimized = Undefined
    /\ tracer = Undefined
    /\ tools = <<>>
    /\ rubricCache = NoRubrics

\* The scanner classifies one path.
CallDetectRole ==
    \E dir \in RoleDirs, stem \in RoleStems, ext \in RoleExts :
        /\ call = Idle
        /\ call' = [op |-> "detectRole", dir |-> dir, stem |-> stem, ext |-> ext,
                    role |-> DetectRole(Chars(dir) \o Chars(stem) \o Chars(ext))]
        /\ UNCHANGED <<disk, manifests, repo, summary, threw, gitInfo, treeFiles, tree,
                       optimized, tracer, tools, rubricCache>>

NextRole == CallDetectRole

SpecRole == InitRole /\ [][NextRole]_vars

RoleAsked == call.op = "detectRole"

\* C22: detectRole depends on the path alone and applies its rules in the
\* order test, config, docs, source: a path with a test marker is 'test' also
\* when it carries a config or docs keyword, a path with a config keyword and
\* no test marker is 'config' also when it carries a docs keyword, a path with
\* a docs keyword only is 'docs', and a path with none of them is 'source'.
C22_RolePrecedenceTestConfigDocsSource ==
    RoleAsked =>
        call.role =
            IF CarriesTest(call.dir, call.stem, call.ext) THEN "test"
            ELSE IF CarriesConfig(call.dir, call.stem, call.ext) THEN "config"
            ELSE IF CarriesDocs(call.dir, call.stem, call.ext) THEN "docs"
            ELSE "source"

\* A path that carries a test marker, a config keyword and a docs keyword has
\* been classified as 'test'.
C22_Witness ==
    /\ RoleAsked
    /\ CarriesTest(call.dir, call.stem, call.ext)
    /\ CarriesConfig(call.dir, call.stem, call.ext)
    /\ CarriesDocs(call.dir, call.stem, call.ext)
    /\ call.role = "test"

-----------------------------------------------------------------------------
(* SpecDepth: parse() on syntax trees of growing depth                     *)
(* A tree is given by its deepest path from the root (its spine): the node *)
(* types from the root down, and whether the tree holds an ERROR node.     *)

\* The depth guard of TypeScriptParser.walkNode.
MAX_WALK_DEPTH == 50

\* Nested calls the runtime's stack holds before it raises RangeError.
StackFrames == 60

\* Deepest spine below the root.
MaxSpineDepth == 62

\* The nested calls of TypeScriptParser.walkNode(spine[i], ..., depth): it
\* returns at once past the guard and descends only through program and
\* export_statement nodes.
RECURSIVE TsWalkFrames(_, _, _)
TsWalkFrames(spine, i, depth) ==
    IF depth > MAX_WALK_DEPTH THEN 1
    ELSE IF spine[i] = "ERROR" THEN 1
    ELSE IF spine[i] \in {"program", "export_statement"} /\ i < Len(spine)
    THEN 1 + TsWalkFrames(spine, i + 1, depth + 1)
    ELSE 1

\* The nested calls of PythonParser.walkNode(spine[i]): it descends only
\* through module and decorated_definition nodes.
RECURSIVE PyWalkFrames(_, _)
PyWalkFrames(spine, i) ==
    IF spine[i] \in {"module", "decorated_definition"} /\ i < Len(spine)
    THEN 1 + PyWalkFrames(spine, i + 1)
    ELSE 1

\* The nested calls of TypeScriptParser.countErrors(spine[i]): it descends
\* into every child of every node.
RECURSIVE CountErrorsFrames(_, _)
CountErrorsFrames(spine, i) ==
    IF i < Len(spine) THEN 1 + CountErrorsFrames(spine, i + 1) ELSE 1

\* TypeScriptParser.parse on the tree: countErrors runs outside the try
\* blocks, so a stack overflow in it leaves parse() as a RangeError; the walk
\* runs inside one. `frames` are the levels each traversal went down.
TypeScriptParseSpine(ast, filePath) ==
    LET counted == IF ast.hasError THEN CountErrorsFrames(ast.spine, 1) ELSE 0
        walked == TsWalkFrames(ast.spine, 1, 0)
        reached == ast.spine[Len(ast.spine)] = "function_declaration"
                       /\ walked = Len(ast.spine)
    IN  IF counted > StackFrames
        THEN [threw |-> TRUE, value |-> Undefined, frames |-> {StackFrames}]
        ELSE [threw |-> FALSE,
              value |-> ModuleOf(filePath, IF reached THEN <<ExportOf(1)>> ELSE <<>>),
              frames |-> {counted, walked}]

\* PythonParser.parse on the tree.
PythonParseSpine(ast, filePath) ==
    LET walked == PyWalkFrames(ast.spine, 1)
    IN  IF walked > StackFrames
        THEN [threw |-> TRUE, value |-> Undefined, frames |-> {StackFrames}]
        ELSE [threw |-> FALSE, value |-> ModuleOf(filePath, <<>>), frames |-> {walked}]

\* A spine of n nodes of one type between the root and the declaration at the
\* bottom: nested blocks, or export statements as the depth guard anticipates.
SpineOf(root, inner, n, leaf) == <<root>> \o [k \in 1..n |-> inner] \o <<leaf>>

InitDepth ==
    /\ disk \in {<<[path |-> PathBTsx,
                    content |-> [spine |-> SpineOf("program", inner, n, "function_declaration"),
                                 hasError |-> e]]>> :
                    inner \in {"statement_block", "export_statement"},
                    n \in 0..MaxSpineDepth, e \in BOOLEAN}
               \cup
               {<<[path |-> PathAPy,
                   content |-> [spine |-> SpineOf("module", "block", n, "function_definition"),
                                hasError |-> e]]>> :
                    n \in 0..MaxSpineDepth, e \in BOOLEAN}
    /\ manifests = NoManifests
    /\ repo = NoRepo
    /\ call = Idle
    /\ summary = Undefined
    /\ threw = FALSE
    /\ gitInfo = Undefined
    /\ treeFiles = <<>>
    /\ tree = Undefined
    /\ optimized = Undefined
    /\ tracer = Undefined
    /\ tools = <<>>
    /\ rubricCache = NoRubrics

\* The parser of the file's language parses the tree of the file.
ParseTree ==
    LET file == disk[1]
        outcome == IF DetectLanguage(file.path) = "python"
                   THEN PythonParseSpine(file.content, file.path)
                   ELSE TypeScriptParseSpine(file.content, file.path)
    IN  /\ call = Idle
        /\ call' = [op |-> "parse", lang |-> DetectLanguage(file.path),
                    module |-> outcome.value, frames |-> outcome.frames]
        /\ threw' = outcome.threw
        /\ UNCHANGED <<disk, manifests, repo, summary, gitInfo, treeFiles, tree,
                       optimized, tracer, tools, rubricCache>>

NextDepth == ParseTree

SpecDepth == InitDepth /\ [][NextDepth]_vars

\* C23 as stated: every traversal of the parsers (the declaration walks and
\* the syntax-error count) stops descending at a fixed depth (50 levels below
\* the root for the TypeScript walk), and parse() returns normally, however
\* deep the tree is.
C23_TraversalsDepthBounded ==
    call.op = "parse" =>
        /\ ~threw
        /\ \A f \in call.frames : f <= MAX_WALK_DEPTH + 2

\* The part of C23 the code keeps: on trees without ERROR nodes (the
\* syntax-error count does not run) the walks stay within the bound and
\* parse() returns.
C23_WalksDepthBounded ==
    (call.op = "parse" /\ ~disk[1].content.hasError) =>
        /\ ~threw
        /\ \A f \in call.frames : f <= MAX_WALK_DEPTH + 2

-----------------------------------------------------------------------------
(* SpecStatus: one Tracer receives recordError, recordTestPass and setStatus
   calls in any order and is then finalized. `call` keeps the last operation,
   the status it found, the number of setStatus calls, and the trace
   finalize() returned. *)

MaxErrors == 2
MaxPasses == 2
MaxSetStatus == 2

TraceStatuses == {"success", "partial", "failed"}

InitStatus ==
    /\ disk = <<>>
    /\ manifests = NoManifests
    /\ repo = NoRepo
    /\ call = [op |-> "new", before |-> NotSet, setStatusCalls |-> 0,
               returned |-> Undefined]
    /\ summary = Undefined
    /\ threw = FALSE
    /\ gitInfo = Undefined
    /\ treeFiles = <<>>
    /\ tree = Undefined
    /\ optimized = Undefined
    /\ tracer = NewTracer
    /\ tools = <<>>
    /\ rubricCache = NoRubrics

CallRecordError ==
    /\ call.returned = Undefined
    /\ Len(tracer.errors) < MaxErrors
    /\ tracer' = RecordError(tracer, "boom")
    /\ call' = [call EXCEPT !.op = "recordError", !.before = tracer.status]
    /\ UNCHANGED <<disk, manifests, repo, summary, threw, gitInfo, treeFiles, tree, optimized, tools,
                   rubricCache>>

CallRecordTestPass ==
    /\ call.returned = Undefined
    /\ tracer.execution.testsPassed < MaxPasses
    /\ tracer' = RecordTestPass(tracer)
    /\ call' = [call EXCEPT !.op = "recordTestPass", !.before = tracer.status]
    /\ UNCHANGED <<disk, manifests, repo, summary, threw, gitInfo, treeFiles, tree, optimized, tools,
                   rubricCache>>

CallSetStatus ==
    /\ call.returned = Undefined
    /\ call.setStatusCalls < MaxSetStatus
    /\ \E status \in TraceStatuses : tracer' = SetStatus(tracer, status)
    /\ call' = [call EXCEPT !.op = "setStatus", !.before = tracer.status, !.setStatusCalls = @ + 1]
    /\ UNCHANGED <<disk, manifests, repo, summary, threw, gitInfo, treeFiles, tree, optimized, tools,
                   rubricCache>>

CallFinalize ==
    /\ call.returned = Undefined
    /\ tracer' = Finalize(tracer)
    /\ call' = [call EXCEPT !.op = "finalize", !.before = tracer.status, !.returned = Finalize(tracer)]
    /\ UNCHANGED <<disk, manifests, repo, summary, threw, gitInfo, treeFiles, tree, optimized, tools,
                   rubricCache>>

NextStatus == CallRecordError \/ CallRecordTestPass \/ CallSetStatus \/ CallFinalize

SpecStatus == InitStatus /\ [][NextStatus]_vars

Finalized == call.op = "finalize"

\* C24: once recordError has been called the trace status is 'failed', and
\* the trace a later finalize() returns has the status 'failed'.
C24_RecordErrorFails ==
    /\ call.op = "recordError" => tracer.status = "failed"
    /\ (Finalized /\ Len(call.returned.errors) > 0) => call.returned.status = "failed"

\* What the code does hold to: right after recordError the trace is never
\* still 'success'.
C24_RecordErrorLeavesSuccess ==
    call.op = "recordError" => tracer.status # "success"

-----------------------------------------------------------------------------
(* SpecRun: runTestsForPromptfoo (and the run command, which holds the same
   lines) records one runner result in a fresh Tracer and finalizes it.
   A runner result is its summary counts and the status of each reported
   test; `call` keeps the result and the step reached. *)

MaxRunTests == 3
MaxStdoutCount == 2

TestStatuses == {"passed", "failed", "skipped", "error"}

CountStatus(tests, status) == Cardinality({i \in 1..Len(tests) : tests[i] = status})

\* A pytest JSON report: one TestResult per reported test, the summary counts
\* as pytest reports them.
ReportResult(tests) ==
    [summary |-> [passed |-> CountStatus(tests, "passed"),
                  failed |-> CountStatus(tests, "failed"),
                  skipped |-> CountStatus(tests, "skipped")],
     tests |-> tests]

\* parseFromStdout: the counts read from the output, and no test list.
StdoutResult(passed, failed, skipped) ==
    [summary |-> [passed |-> passed, failed |-> failed, skipped |-> skipped],
     tests |-> <<>>]

RunnerResults ==
    {ReportResult(tests) : tests \in UNION {[1..n -> TestStatuses] : n \in 0..MaxRunTests}}
    \cup {StdoutResult(p, f, s) : p \in 0..MaxStdoutCount, f \in 0..MaxStdoutCount,
                                  s \in 0..MaxStdoutCount}

\* The loop over result.tests: recordTestFailure for each failed or errored
\* test.
RECURSIVE RecordFailures(_, _)
RecordFailures(t, tests) ==
    IF tests = <<>> THEN t
    ELSE RecordFailures(IF Head(tests) \in {"failed", "error"}
                        THEN RecordTestFailure(t, Head(tests))
                        ELSE t,
                        Tail(tests))

\* The block that records a runner result in the trace.
RecordResult(t, result) ==
    RecordFailures(RecordExecution(t, [testsPassed |-> result.summary.passed,
                                       testsFailed |-> result.summary.failed,
                                       testsSkipped |-> result.summary.skipped]),
                   result.tests)

InitRun ==
    /\ disk = <<>>
    /\ manifests = NoManifests
    /\ repo = NoRepo
    /\ call = [op |-> "none"]
    /\ summary = Undefined
    /\ threw = FALSE
    /\ gitInfo = Undefined
    /\ treeFiles = <<>>
    /\ tree = Undefined
    /\ optimized = Undefined
    /\ tracer = NewTracer
    /\ tools = <<>>
    /\ rubricCache = NoRubrics

RunRecords ==
    /\ call.op = "none"
    /\ \E result \in RunnerResults :
          /\ tracer' = RecordResult(tracer, result)
          /\ call' = [op |-> "run", pc |-> "recorded", result |-> result]
    /\ UNCHANGED <<disk, manifests, repo, summary, threw, gitInfo, treeFiles, tree, optimized, tools,
                   rubricCache>>

RunFinalizes ==
    /\ call.op = "run"
    /\ call.pc = "recorded"
    /\ tracer' = Finalize(tracer)
    /\ call' = [call EXCEPT !.pc = "finalized"]
    /\ UNCHANGED <<disk, manifests, repo, summary, threw, gitInfo, treeFiles, tree, optimized, tools,
                   rubricCache>>

NextRun == RunRecords \/ RunFinalizes

SpecRun == InitRun /\ [][NextRun]_vars

\* C26: once the runner result is recorded, the trace's testsFailed is the
\* failed count of the runner summary.
C26_TestsFailedIsSummaryFailed ==
    call.op = "run" => tracer.execution.testsFailed = call.result.summary.failed

\* What the code does hold to: testsFailed is the summary's failed count plus
\* one for every failed or errored test in the result, and every such test
\* is in the failures list.
C26_TestsFailedCountsListedFailuresAgain ==
    call.op = "run" =>
        /\ tracer.execution.testsFailed =
              call.result.summary.failed + Len(tracer.execution.failures)
        /\ Len(tracer.execution.failures) =
              CountStatus(call.result.tests, "failed") + CountStatus(call.result.tests, "error")

-----------------------------------------------------------------------------
(* SpecIncremental: one analyzeIncremental(root, lastCommit) call, or one
   analyze() call with an empty onlyFiles list, on a fixed on-disk state.
   `call` keeps the arguments and the onProgress messages, named after the
   step that emits them. *)

EmptyObject == [k \in {} |-> Undefined]

\* The onProgress messages of analyze(), by step.
AnalyzeProgress == <<"scan", "parse", "config", "history", "tree", "merge">>

\* An analyzeIncremental that runs a full analysis when nothing changed.
AnalyzeIncrementalFallingBack(d, m, r, root, lastCommit) ==
    LET changedFiles == GetChangedFiles(r, lastCommit)
    IN  [summary |-> Analyze(d, m, r, [root |-> root, lastCommit |-> lastCommit,
                                       onlyFiles |-> IF Len(changedFiles) = 0 THEN NoList
                                                     ELSE changedFiles]),
         progress |-> <<"changed", "found">> \o AnalyzeProgress]

\* analyzeIncremental(root, lastCommit, onProgress): the summary it returns
\* (without analyzedAt) and the progress messages it emits.
AnalyzeIncremental(d, m, r, root, lastCommit) ==
    LET changedFiles == GetChangedFiles(r, lastCommit)
    IN  IF Len(changedFiles) = 0
        THEN [summary |-> [languages |-> <<>>,
                           root |-> root,
                           files |-> <<>>,
                           modules |-> <<>>,
                           config |-> EmptyObject,
                           git |-> GetGitInfo(r, lastCommit)],
              progress |-> <<"changed", "none">>]
        ELSE [summary |-> Analyze(d, m, r, [root |-> root, lastCommit |-> lastCommit,
                                            onlyFiles |-> changedFiles]),
              progress |-> <<"changed", "found">> \o AnalyzeProgress]

InitIncremental ==
    /\ disk \in PromptDisks
    /\ manifests \in ManifestChoices
    /\ repo \in {NoRepo} \cup
                {RepoWith(fails, dirty, delta, [p \in HistoryPaths |-> 1]) :
                    fails \in {{}, {"diff"}},
                    dirty \in SUBSET {PathAPy},
                    delta \in SUBSET DiffPaths}
    /\ call = Idle
    /\ summary = Undefined
    /\ threw = FALSE
    /\ gitInfo = Undefined
    /\ treeFiles = <<>>
    /\ tree = Undefined
    /\ optimized = Undefined
    /\ tracer = Undefined
    /\ tools = <<>>
    /\ rubricCache = NoRubrics

CallAnalyzeIncremental ==
    /\ call = Idle
    /\ \E lastCommit \in {RevC1, RevC2} :
          LET returned == AnalyzeIncremental(disk, manifests, repo, RootPath, lastCommit)
          IN  /\ call' = [op |-> "analyzeIncremental", lastCommit |-> lastCommit,
                          progress |-> returned.progress]
              /\ summary' = returned.summary
    /\ threw' = FALSE
    /\ UNCHANGED <<disk, manifests, repo, gitInfo, treeFiles, tree, optimized,
                   tracer, tools, rubricCache>>

CallAnalyzeEmptyOnly ==
    /\ call = Idle
    /\ \E lastCommit \in {RevC1, RevC2} :
          LET options == [root |-> RootPath, lastCommit |-> lastCommit, onlyFiles |-> <<>>]
          IN  /\ call' = [op |-> "analyze", options |-> options,
                          progress |-> AnalyzeProgress]
              /\ summary' = Analyze(disk, manifests, repo, options)
    /\ threw' = FALSE
    /\ UNCHANGED <<disk, manifests, repo, gitInfo, treeFiles, tree, optimized,
                   tracer, tools, rubricCache>>

NextIncremental == CallAnalyzeIncremental \/ CallAnalyzeEmptyOnly

SpecIncremental == InitIncremental /\ [][NextIncremental]_vars

NothingChanged ==
    /\ call.op = "analyzeIncremental"
    /\ GetChangedFiles(repo, call.lastCommit) = <<>>

\* C25: when getChangedFiles answers an empty list, analyzeIncremental
\* returns a summary with empty languages, files and modules, an empty config
\* and no tree, and neither scans nor parses; analyze() with an empty
\* onlyFiles list returns every scanned file, a module for each source file
\* among them, and a tree.
C25_NoChangeYieldsMinimalSummary ==
    /\ NothingChanged =>
          /\ summary.languages = <<>>
          /\ summary.files = <<>>
          /\ summary.modules = <<>>
          /\ summary.config = EmptyObject
          /\ "tree" \notin DOMAIN summary
          /\ summary.git = GetGitInfo(repo, call.lastCommit)
          /\ Range(call.progress) \cap {"scan", "parse"} = {}
    /\ (call.op = "analyze" /\ call.options.onlyFiles = <<>>) =>
          /\ summary.files = ScanDirectory(disk)
          /\ PathsOf(summary.modules) =
                {f.path : f \in {g \in Range(ScanDirectory(disk)) :
                                    g.role = "source" /\ g.lang # "other"}}
          /\ "tree" \in DOMAIN summary

\* Nothing changed since the baseline (or the diff failed) while the root
\* holds source files a full analysis would list.
C25_Witness ==
    /\ NothingChanged
    /\ repo.isRepo
    /\ ScanDirectory(disk) # <<>>
    /\ summary.files = <<>>

-----------------------------------------------------------------------------
(* SpecExec: one sandboxedExec() call. The event loop delivers the child's
   'error' and 'close' events and fires the two timers; time is a clock in
   milliseconds that moves in steps of TickMs, and a timer fires at the first
   step at or past its deadline. `call` holds the closure of the promise
   executor (timedOut, the timers), the child, the kill() calls made, and the
   promise. stdout and stderr data are not modelled. *)

KILL_DELAY_MS == 1000

TickMs == 500

MaxNow == 3000

Timeouts == {TickMs, 2 * TickMs, 3 * TickMs}

Exit(code) == [bySignal |-> FALSE, code |-> code]

Signalled == [bySignal |-> TRUE]

\* `code ?? 1`: a child ended by a signal closes with code null.
ExitCodeOf(closed) == IF closed.bySignal THEN 1 ELSE closed.code

\* The promise settles at the first resolve() call; later calls change nothing.
Resolve(x, value, handler) ==
    IF x.promise = Undefined
    THEN [x EXCEPT !.promise = value, !.settledBy = handler, !.resolveCalls = @ + 1]
    ELSE [x EXCEPT !.resolveCalls = @ + 1]

ClearTimeout(timer) == IF timer = "armed" THEN "cleared" ELSE timer

\* child.kill(signal): the call is recorded; the signal reaches the child
\* only while it has not ended.
Kill(x, signal) ==
    [x EXCEPT !.kills = Append(@, [signal |-> signal, at |-> x.now]),
              !.delivered = IF x.child = "running" THEN @ \cup {signal} ELSE @]

\* The executor up to the end of its synchronous part: the child is spawned
\* (or its spawn failure is pending as an 'error' event) and the timeout
\* timer is armed.
Spawned(timeout, spawnOk) ==
    [op |-> "sandboxedExec",
     timeout |-> timeout,
     now |-> 0,
     child |-> IF spawnOk THEN "running" ELSE "spawnFailed",
     errorEmitted |-> FALSE,
     delivered |-> {},
     timedOut |-> FALSE,
     timeoutId |-> "armed",
     killTimer |-> "none",
     killDue |-> 0,
     kills |-> <<>>,
     promise |-> Undefined,
     settledBy |-> "none",
     resolveCalls |-> 0]

\* The timeout callback
OnTimeout(x) ==
    [Kill([x EXCEPT !.timedOut = TRUE, !.timeoutId = "fired"], "SIGTERM")
        EXCEPT !.killTimer = "armed", !.killDue = x.now + KILL_DELAY_MS]

\* The callback of the inner timer
OnKillTimer(x) == Kill([x EXCEPT !.killTimer = "fired"], "SIGKILL")

\* A 'close' handler that leaves the timeout timer armed.
OnCloseKeepingTimer(x, closed) ==
    Resolve([x EXCEPT !.child = "closed"],
            [exitCode |-> ExitCodeOf(closed), timedOut |-> x.timedOut], "close")

\* child.on('close', ...)
OnClose(x, closed) ==
    Resolve([x EXCEPT !.child = "closed", !.timeoutId = ClearTimeout(@)],
            [exitCode |-> ExitCodeOf(closed), timedOut |-> x.timedOut], "close")

\* child.on('error', ...)
OnError(x) ==
    Resolve([x EXCEPT !.errorEmitted = TRUE, !.timeoutId = ClearTimeout(@)],
            [exitCode |-> 1, timedOut |-> FALSE], "error")

InitExec ==
    /\ disk = <<>>
    /\ manifests = NoManifests
    /\ repo = NoRepo
    /\ call \in {Spawned(timeout, spawnOk) : timeout \in Timeouts, spawnOk \in BOOLEAN}
    /\ summary = Undefined
    /\ threw = FALSE
    /\ gitInfo = Undefined
    /\ treeFiles = <<>>
    /\ tree = Undefined
    /\ optimized = Undefined
    /\ tracer = Undefined
    /\ tools = <<>>
    /\ rubricCache = NoRubrics

TimerDue ==
    \/ call.timeoutId = "armed" /\ call.now >= call.timeout
    \/ call.killTimer = "armed" /\ call.now >= call.killDue

\* Time passes while the call has something to wait for.
Tick ==
    /\ call.op = "sandboxedExec"
    /\ call.now < MaxNow
    /\ ~TimerDue
    /\ \/ call.child = "running"
       \/ call.killTimer = "armed"
    /\ call' = [call EXCEPT !.now = @ + TickMs]
    /\ UNCHANGED <<disk, manifests, repo, summary, threw, gitInfo, treeFiles, tree,
                   optimized, tracer, tools, rubricCache>>

TimeoutFires ==
    /\ call.op = "sandboxedExec"
    /\ call.timeoutId = "armed"
    /\ call.now >= call.timeout
    /\ call' = OnTimeout(call)
    /\ UNCHANGED <<disk, manifests, repo, summary, threw, gitInfo, treeFiles, tree,
                   optimized, tracer, tools, rubricCache>>

KillTimerFires ==
    /\ call.op = "sandboxedExec"
    /\ call.killTimer = "armed"
    /\ call.now >= call.killDue
    /\ call' = OnKillTimer(call)
    /\ UNCHANGED <<disk, manifests, repo, summary, threw, gitInfo, treeFiles, tree,
                   optimized, tracer, tools, rubricCache>>

\* The running child ends and its streams close: by itself or on SIGTERM with
\* an exit code, or ended by a delivered signal.
ChildCloses ==
    /\ call.op = "sandboxedExec"
    /\ call.child = "running"
    /\ \E closed \in {Exit(0), Exit(1), Exit(2), Signalled} :
          /\ closed.bySignal => call.delivered # {}
          /\ "SIGKILL" \in call.delivered => closed.bySignal
          /\ call' = OnClose(call, closed)
    /\ UNCHANGED <<disk, manifests, repo, summary, threw, gitInfo, treeFiles, tree,
                   optimized, tracer, tools, rubricCache>>

\* The spawn failed: the child emits 'error' on the next tick of the loop.
SpawnErrorEmitted ==
    /\ call.op = "sandboxedExec"
    /\ call.child = "spawnFailed"
    /\ ~call.errorEmitted
    /\ call' = OnError(call)
    /\ UNCHANGED <<disk, manifests, repo, summary, threw, gitInfo, treeFiles, tree,
                   optimized, tracer, tools, rubricCache>>

\* After the 'error' of a failed spawn the child emits 'close' with the
\* negative error number.
FailedChildCloses ==
    /\ call.op = "sandboxedExec"
    /\ call.child = "spawnFailed"
    /\ call.errorEmitted
    /\ call' = OnClose(call, Exit(-2))
    /\ UNCHANGED <<disk, manifests, repo, summary, threw, gitInfo, treeFiles, tree,
                   optimized, tracer, tools, rubricCache>>

NextExec ==
    \/ Tick
    \/ TimeoutFires
    \/ KillTimerFires
    \/ ChildCloses
    \/ SpawnErrorEmitted
    \/ FailedChildCloses

SpecExec == InitExec /\ [][NextExec]_vars

\* The event loop keeps running timers and delivering events, and a child
\* that was sent SIGKILL ends.
FairSpecExec == SpecExec /\ WF_vars(NextExec)

Settled == call.promise # Undefined

-----------------------------------------------------------------------------
(* SpecStore: a TraceStore directory filled by save() calls, some of them
   interrupted, then one cleanup(keepCount). `disk` is the directory in
   readdir order: one entry per file, with the file's name (without .json)
   and its content: a trace, or text that JSON.parse rejects. *)

MaxTraceFiles == 3

MaxStartedAt == 2

MaxKeepCount == 2

TraceIds == {"t1", "t2", "t3", "t4"}

Unparseable == [unparseable |-> TRUE]

StoredTrace(id, startedAt) == [id |-> id, startedAt |-> startedAt]

FileNames(store) == {store[i].name : i \in 1..Len(store)}

\* writeFile(join(tracesDir, `${trace.id}.json`), content)
WriteFile(store, name, content) ==
    IF name \in FileNames(store)
    THEN [i \in 1..Len(store) |->
             IF store[i].name = name THEN [name |-> name, content |-> content]
             ELSE store[i]]
    ELSE Append(store, [name |-> name, content |-> content])

\* save(trace)
Save(store, trace) == WriteFile(store, trace.id, trace)

\* A list() that answers oldest first.
ListOldestFirst(store) ==
    LET parsed == SelectSeq(store, LAMBDA f : f.content # Unparseable)
        traces == [i \in 1..Len(parsed) |-> parsed[i].content]
    IN  StableSort(traces,
                   [p \in Range(traces) \X Range(traces) |->
                       p[1].startedAt - p[2].startedAt])

\* list(): the files that parse, newest startedAt first.
List(store) ==
    LET parsed == SelectSeq(store, LAMBDA f : f.content # Unparseable)
        traces == [i \in 1..Len(parsed) |-> parsed[i].content]
    IN  StableSort(traces,
                   [p \in Range(traces) \X Range(traces) |->
                       p[2].startedAt - p[1].startedAt])

\* Array.prototype.slice(start)
Slice(s, start) ==
    LET from == IF start < 0 THEN (IF Len(s) + start > 0 THEN Len(s) + start ELSE 0) ELSE start
    IN  SubSeq(s, from + 1, Len(s))

\* delete(traceId): the store afterwards and the boolean returned.
Delete(store, traceId) ==
    IF traceId \notin FileNames(store)
    THEN [store |-> store, returned |-> FALSE]
    ELSE [store |-> SelectSeq(store, LAMBDA f : f.name # traceId), returned |-> TRUE]

RECURSIVE DeleteEach(_, _, _)
DeleteEach(store, toDelete, deleted) ==
    IF toDelete = <<>> THEN [store |-> store, returned |-> deleted]
    ELSE LET one == Delete(store, Head(toDelete).id)
         IN  DeleteEach(one.store, Tail(toDelete),
                        IF one.returned THEN deleted + 1 ELSE deleted)

\* cleanup(keepCount): the store afterwards and the number returned.
Cleanup(store, keepCount) == DeleteEach(store, Slice(List(store), keepCount), 0)

InitStore ==
    /\ disk = <<>>
    /\ manifests = NoManifests
    /\ repo = NoRepo
    /\ call = Idle
    /\ summary = Undefined
    /\ threw = FALSE
    /\ gitInfo = Undefined
    /\ treeFiles = <<>>
    /\ tree = Undefined
    /\ optimized = Undefined
    /\ tracer = Undefined
    /\ tools = <<>>
    /\ rubricCache = NoRubrics

\* saveTrace(trace) of a finalized trace
SaveTrace ==
    /\ call = Idle
    /\ \E id \in TraceIds, startedAt \in 1..MaxStartedAt :
          /\ id \in FileNames(disk) \/ Len(disk) < MaxTraceFiles
          /\ disk' = Save(disk, StoredTrace(id, startedAt))
    /\ UNCHANGED <<manifests, repo, call, summary, threw, gitInfo, treeFiles, tree,
                   optimized, tracer, tools, rubricCache>>

\* A save() whose writeFile is cut short leaves a file that does not parse.
SaveInterrupted ==
    /\ call = Idle
    /\ \E id \in TraceIds :
          /\ id \in FileNames(disk) \/ Len(disk) < MaxTraceFiles
          /\ disk' = WriteFile(disk, id, Unparseable)
    /\ UNCHANGED <<manifests, repo, call, summary, threw, gitInfo, treeFiles, tree,
                   optimized, tracer, tools, rubricCache>>

CallCleanup ==
    /\ call = Idle
    /\ \E keepCount \in 0..MaxKeepCount :
          LET done == Cleanup(disk, keepCount)
          IN  /\ disk' = done.store
              /\ call' = [op |-> "cleanup", keepCount |-> keepCount, before |-> disk,
                          returned |-> done.returned]
    /\ UNCHANGED <<manifests, repo, summary, threw, gitInfo, treeFiles, tree,
                   optimized, tracer, tools, rubricCache>>

NextStore == SaveTrace \/ SaveInterrupted \/ CallCleanup

SpecStore == InitStore /\ [][NextStore]_vars

Readable(store) == {f \in Range(store) : f.content # Unparseable}

\* C29: after cleanup(keepCount) at most keepCount readable traces remain
\* (all of them when there were no more than keepCount), no remaining trace
\* started before a deleted one, the number returned is the number of files
\* that are gone, and every file that does not parse is still there.
C29_CleanupKeepsLatestReadable ==
    call.op = "cleanup" =>
        LET kept == Readable(disk)
            gone == Readable(call.before) \ Readable(disk)
        IN  /\ kept \subseteq Readable(call.before)
            /\ Cardinality(kept) = Min(call.keepCount, Cardinality(Readable(call.before)))
            /\ \A k \in kept, g \in gone : k.content.startedAt >= g.content.startedAt
            /\ call.returned = Len(call.before) - Len(disk)
            /\ call.returned = Cardinality(gone)
            /\ \A f \in Range(call.before) : f.content = Unparseable => f \in Range(disk)

\* A cleanup that kept one trace, deleted an older one, and left a file that
\* does not parse in place.
C29_Witness ==
    /\ call.op = "cleanup"
    /\ call.keepCount = 1
    /\ call.returned = 1
    /\ \E k \in Readable(disk), g \in Readable(call.before) \ Readable(disk) :
          k.content.startedAt > g.content.startedAt
    /\ \E f \in Range(disk) : f.content = Unparseable

-----------------------------------------------------------------------------
(* SpecRubric: loadRubric and clearRubricCache calls while rubric files are
   written and removed. `disk` maps each path to what yaml.load makes of the
   file there; `call` keeps the last operation, its arguments and the rubric
   it returned, and the number of file writes so far. Thresholds and weights
   are in hundredths; every document carries a name and a description. *)

MaxWrites == 2

DEFAULT_RUBRICS_DIR == <<"r", "u", "b", "r", "i", "c", "s">>

AltRubricsDir == <<"a", "l", "t">>

\* path.join(dir, file)
PathJoin(dir, file) == dir \o <<"/">> \o file

RubricPaths ==
    {<<"r">>,
     PathJoin(DEFAULT_RUBRICS_DIR, <<"r", ".", "y", "a", "m", "l">>),
     PathJoin(DEFAULT_RUBRICS_DIR, <<"r", ".", "y", "m", "l">>),
     PathJoin(AltRubricsDir, <<"r", ".", "y", "a", "m", "l">>),
     PathJoin(DEFAULT_RUBRICS_DIR, <<"q", ".", "y", "a", "m", "l">>)}

NamesOrPaths ==
    {<<"r">>, <<"q">>, PathJoin(DEFAULT_RUBRICS_DIR, <<"r", ".", "y", "a", "m", "l">>)}

NoFile == [exists |-> FALSE]

\* A file whose text yaml.load rejects.
MalformedYaml == [exists |-> TRUE, parses |-> FALSE]

Document(rubric) == [exists |-> TRUE, parses |-> TRUE, rubric |-> rubric]

RubricWith(passingThreshold, criteria) ==
    [name |-> "quality", description |-> "d",
     passingThreshold |-> passingThreshold, criteria |-> criteria]

Criterion(weight) == [name |-> "c", description |-> "d", weight |-> weight]

FileContents ==
    {MalformedYaml,
     Document(RubricWith(60, <<Criterion(100)>>)),
     Document(RubricWith(70, <<Criterion(50), Criterion(50)>>)),
     Document(RubricWith(150, <<Criterion(100)>>)),
     Document(RubricWith(70, <<>>)),
     Document(RubricWith(70, <<Criterion(-10)>>))}

\* existsSync(path)
ExistsSync(d, path) == path \in DOMAIN d /\ d[path].exists

\* validateCriterion does not throw
ValidCriterion(c) == c.weight >= 0 /\ c.weight <= 100

\* validateRubric does not throw
ValidRubric(r) ==
    /\ r.passingThreshold >= 0 /\ r.passingThreshold <= 100
    /\ Len(r.criteria) > 0
    /\ \A i \in 1..Len(r.criteria) : ValidCriterion(r.criteria[i])

\* The path loadRubric settles on before it reads.
RubricPath(d, nameOrPath, rubricsDir) ==
    IF ExistsSync(d, nameOrPath) THEN nameOrPath
    ELSE LET yamlPath == PathJoin(rubricsDir, nameOrPath \o <<".", "y", "a", "m", "l">>)
         IN  IF ExistsSync(d, yamlPath) THEN yamlPath
             ELSE PathJoin(rubricsDir, nameOrPath \o <<".", "y", "m", "l">>)

\* What loadRubric does past the cache lookup: the rubric, or a throw.
ReadRubric(d, nameOrPath, rubricsDir) ==
    LET rubricPath == RubricPath(d, nameOrPath, rubricsDir)
    IN  IF ~ExistsSync(d, rubricPath) THEN [threw |-> TRUE]
        ELSE IF ~d[rubricPath].parses THEN [threw |-> TRUE]
        ELSE IF ~ValidRubric(d[rubricPath].rubric) THEN [threw |-> TRUE]
        ELSE [threw |-> FALSE, rubric |-> d[rubricPath].rubric]

\* A loadRubric that stores the document before it validates it.
LoadRubricCachingUnvalidated(cache, d, nameOrPath, rubricsDir) ==
    IF nameOrPath \in DOMAIN cache
    THEN [cache |-> cache, threw |-> FALSE, returned |-> cache[nameOrPath]]
    ELSE LET rubricPath == RubricPath(d, nameOrPath, rubricsDir)
             read == ReadRubric(d, nameOrPath, rubricsDir)
         IN  IF ExistsSync(d, rubricPath) /\ d[rubricPath].parses
             THEN [cache |-> (nameOrPath :> d[rubricPath].rubric) @@ cache,
                   threw |-> read.threw, returned |-> d[rubricPath].rubric]
             ELSE [cache |-> cache, threw |-> TRUE, returned |-> Undefined]

\* loadRubric(nameOrPath, rubricsDir): the cache afterwards, and the rubric
\* returned or the throw.
LoadRubric(cache, d, nameOrPath, rubricsDir) ==
    IF nameOrPath \in DOMAIN cache
    THEN [cache |-> cache, threw |-> FALSE, returned |-> cache[nameOrPath]]
    ELSE LET read == ReadRubric(d, nameOrPath, rubricsDir)
         IN  IF read.threw
             THEN [cache |-> cache, threw |-> TRUE, returned |-> Undefined]
             ELSE [cache |-> (nameOrPath :> read.rubric) @@ cache,
                   threw |-> FALSE, returned |-> read.rubric]

InitRubric ==
    /\ disk = [p \in RubricPaths |-> NoFile]
    /\ manifests = NoManifests
    /\ repo = NoRepo
    /\ call = [op |-> "none", writes |-> 0]
    /\ summary = Undefined
    /\ threw = FALSE
    /\ gitInfo = Undefined
    /\ treeFiles = <<>>
    /\ tree = Undefined
    /\ optimized = Undefined
    /\ tracer = Undefined
    /\ tools = <<>>
    /\ rubricCache = NoRubrics

\* A rubric file is written, rewritten or removed by its author.
WriteRubricFile ==
    /\ call.writes < MaxWrites
    /\ \E path \in RubricPaths, content \in FileContents \cup {NoFile} :
          /\ disk[path] # content
          /\ disk' = [disk EXCEPT ![path] = content]
    /\ call' = [op |-> "write", writes |-> call.writes + 1]
    /\ threw' = FALSE
    /\ UNCHANGED <<manifests, repo, summary, gitInfo, treeFiles, tree, optimized,
                   tracer, tools, rubricCache>>

CallLoadRubric ==
    /\ \E nameOrPath \in NamesOrPaths, rubricsDir \in {DEFAULT_RUBRICS_DIR, AltRubricsDir} :
          LET loaded == LoadRubric(rubricCache, disk, nameOrPath, rubricsDir)
          IN  /\ rubricCache' = loaded.cache
              /\ threw' = loaded.threw
              /\ call' = [op |-> "loadRubric", writes |-> call.writes,
                          nameOrPath |-> nameOrPath, rubricsDir |-> rubricsDir,
                          returned |-> loaded.returned]
    /\ UNCHANGED <<disk, manifests, repo, summary, gitInfo, treeFiles, tree, optimized,
                   tracer, tools>>

CallClearRubricCache ==
    /\ rubricCache' = NoRubrics
    /\ call' = [op |-> "clearRubricCache", writes |-> call.writes]
    /\ threw' = FALSE
    /\ UNCHANGED <<disk, manifests, repo, summary, gitInfo, treeFiles, tree, optimized,
                   tracer, tools>>

NextRubric == WriteRubricFile \/ CallLoadRubric \/ CallClearRubricCache

SpecRubric == InitRubric /\ [][NextRubric]_vars

\* C30: only rubrics that were found and passed validation are in the
\* cache, and a load that throws leaves the cache as it was; a load of a
\* cached nameOrPath returns the cached rubric whatever rubricsDir and the
\* files are, and an entry changes only by clearRubricCache; a load of a
\* nameOrPath that is not cached (never loaded, failed before, or cleared)
\* reads the file.
C30_CacheKeyedByNameHoldsValidRubrics ==
    /\ [] (\A key \in DOMAIN rubricCache : ValidRubric(rubricCache[key]))
    /\ [][(call'.op = "loadRubric" /\ threw') => rubricCache' = rubricCache]_vars
    /\ [][(call'.op = "loadRubric" /\ call'.nameOrPath \in DOMAIN rubricCache)
             => /\ ~threw'
                /\ call'.returned = rubricCache[call'.nameOrPath]
                /\ rubricCache' = rubricCache]_vars
    /\ [][call'.op # "clearRubricCache"
             => \A key \in DOMAIN rubricCache :
                   key \in DOMAIN rubricCache' /\ rubricCache'[key] = rubricCache[key]]_vars
    /\ [][call'.op = "clearRubricCache" => rubricCache' = NoRubrics]_vars
    /\ [][(call'.op = "loadRubric" /\ call'.nameOrPath \notin DOMAIN rubricCache)
             => LET read == ReadRubric(disk, call'.nameOrPath, call'.rubricsDir)
                IN  /\ threw' = read.threw
                    /\ ~read.threw => call'.returned = read.rubric]_vars

\* A load answered from the cache although the files now hold another
\* rubric for that name, asked with the other rubricsDir, after an earlier
\* write left a rubric in place.
C30_Witness ==
    /\ call.op = "loadRubric"
    /\ ~threw
    /\ call.rubricsDir = AltRubricsDir
    /\ call.nameOrPath = <<"r">>
    /\ LET read == ReadRubric(disk, call.nameOrPath, call.rubricsDir)
       IN  ~read.threw /\ read.rubric # call.returned

====
